---- MODULE Spec2Model ----
(***************************************************************************)
(* A model of the struct-to-row mapping engine of cristosal/orm:           *)
(*   schema.Get / lookup / save / ClearCache   (src/schema/schema.go)      *)
(*   Fields.Find / FindPK / Writeable / Columns (src/schema/field.go)      *)
(*   Columns.List / ValueList / AssignmentList  (src/schema/columns.go)    *)
(*   Addrs / Values                              (src/schema/schema.go)    *)
(*   Add / Get / List / Update / UpdateByID      (src/unnamed/part_014)    *)
(*                                                                         *)
(* Go strings that the code takes apart (identifiers, db tags) are         *)
(* sequences of one-character strings; SQL text, which the code only       *)
(* assembles, is a TLA+ string.  Go values are records [k, nil, v]: the    *)
(* reflect kind, whether a nil-able value is nil, and a number standing    *)
(* for the content.  A struct value is the sequence of its field values,   *)
(* a descriptor pointer is a key into the heap of descriptors.             *)
(***************************************************************************)
EXTENDS Integers, Sequences, FiniteSets, TLC

VARIABLES schemaCache, heap, root, last, procs, migrations

vars == <<schemaCache, heap, root, last, procs, migrations>>

(***************************************************************************)
(* Bounds of the model.                                                    *)
(***************************************************************************)
\* records of each type the callers pass: sample 1 .. MaxSample
MaxSample == 2
\* caller-supplied predicate arguments of Update / Get: 0 .. MaxArgs
MaxArgs == 2
\* rows a cursor yields to List: 0 .. MaxRows
MaxRows == 1
\* letters of an identifier given to snakecase: 0 .. MaxIdent
MaxIdent == 4
MaxMany == 2

(***************************************************************************)
(* Characters and the string functions of the Go library the code uses.    *)
(***************************************************************************)
Uppers == <<"A","B","C","D","E","F","G","H","I","J","K","L","M",
            "N","O","P","Q","R","S","T","U","V","W","X","Y","Z">>
Lowers == <<"a","b","c","d","e","f","g","h","i","j","k","l","m",
            "n","o","p","q","r","s","t","u","v","w","x","y","z">>

IsUpper(c) == \E i \in DOMAIN Uppers : Uppers[i] = c
IsLower(c) == \E i \in DOMAIN Lowers : Lowers[i] = c
ToLower(c) == IF IsUpper(c)
              THEN Lowers[CHOOSE i \in DOMAIN Uppers : Uppers[i] = c]
              ELSE c

\* the Go string as SQL text
RECURSIVE Str(_)
Str(s) == IF s = <<>> THEN "" ELSE Head(s) \o Str(Tail(s))

\* strings.Join
RECURSIVE Join(_, _)
Join(parts, sep) ==
    IF parts = <<>> THEN ""
    ELSE IF Len(parts) = 1 THEN parts[1]
    ELSE parts[1] \o sep \o Join(Tail(parts), sep)

\* strings.Trim(s, " ")
RECURSIVE TrimLeft(_)
TrimLeft(s) == IF s # <<>> /\ Head(s) = " " THEN TrimLeft(Tail(s)) ELSE s
RECURSIVE TrimRight(_)
TrimRight(s) == IF s # <<>> /\ s[Len(s)] = " "
                THEN TrimRight(SubSeq(s, 1, Len(s) - 1)) ELSE s
Trim(s) == TrimRight(TrimLeft(s))

\* strings.Split(s, sep) for a one-character separator
RECURSIVE SplitFrom(_, _, _)
SplitFrom(s, sep, cur) ==
    IF s = <<>> THEN <<cur>>
    ELSE IF Head(s) = sep THEN <<cur>> \o SplitFrom(Tail(s), sep, <<>>)
    ELSE SplitFrom(Tail(s), sep, Append(cur, Head(s)))
Split(s, sep) == SplitFrom(s, sep, <<>>)

HasPrefix(s, p) == Len(s) >= Len(p) /\ SubSeq(s, 1, Len(p)) = p
TrimPrefix(s, p) == IF HasPrefix(s, p) THEN SubSeq(s, Len(p) + 1, Len(s)) ELSE s

RECURSIVE snakeLoop(_, _, _, _)
\* the loop of snakecase without its second test: no underscore is written
\* before the last capital of an acronym
snakeLoopNoAcronym(input, i, prevUpper, buf) ==
    IF i > Len(input) THEN buf
    ELSE LET c == input[i]
         IN IF IsUpper(c)
            THEN snakeLoop(input, i + 1, TRUE,
                           Append(IF i > 1 /\ ~prevUpper THEN Append(buf, "_") ELSE buf,
                                  ToLower(c)))
            ELSE snakeLoop(input, i + 1, FALSE, Append(buf, c))

\* snakecase: the loop of the code, one character at a time
snakeLoop(input, i, prevUpper, buf) ==
    IF i > Len(input) THEN buf
    ELSE LET c == input[i]
             nextLower == IF i = Len(input) THEN FALSE ELSE IsLower(input[i + 1])
         IN IF IsUpper(c)
            THEN LET b1 == IF i > 1 /\ ~prevUpper THEN Append(buf, "_") ELSE buf
                     b2 == IF nextLower /\ prevUpper THEN Append(b1, "_") ELSE b1
                 IN snakeLoop(input, i + 1, TRUE, Append(b2, ToLower(c)))
            ELSE snakeLoop(input, i + 1, FALSE, Append(buf, c))
snakecase(input) == snakeLoop(input, 1, FALSE, <<>>)

(***************************************************************************)
(* The record types the callers use.  A declared field is                  *)
(* [name, tag, anon, exported, kind, etyp]: tag is the value of its db     *)
(* tag (empty when it has none), kind its reflect kind, etyp the struct    *)
(* type of an embedded field.  recv tells whether the type declares        *)
(* TableName() and with which receiver; tname is what it returns.          *)
(***************************************************************************)
Fld(name, tag, kind) ==
    [name |-> name, tag |-> tag, anon |-> FALSE, exported |-> TRUE,
     kind |-> kind, etyp |-> ""]
Emb(t, name) ==
    [name |-> name, tag |-> <<>>, anon |-> TRUE, exported |-> TRUE,
     kind |-> "struct", etyp |-> t]

Types ==
    [A |-> [name |-> <<"A">>, recv |-> "none", tname |-> <<>>, fields |-> <<
              Fld(<<"I","D">>, <<>>, "int"),
              Fld(<<"F","o","o">>, <<"f","o","o">>, "string") >>],
     B |-> [name |-> <<"B">>, recv |-> "none", tname |-> <<>>, fields |-> <<
              Emb("A", <<"A">>),
              Fld(<<"B","a","r">>, <<"b","a","r">>, "int"),
              Fld(<<"B","a","z">>, <<"b","a","z",",","r","e","a","d","o","n","l","y">>, "bool") >>],
     C |-> [name |-> <<"C">>, recv |-> "none", tname |-> <<>>, fields |-> <<
              Emb("B", <<"B">>),
              Fld(<<"Q","u","x">>, <<"q","u","x">>, "string") >>],
     NoteInfo |-> [name |-> <<"N","o","t","e","I","n","f","o">>, recv |-> "none",
                   tname |-> <<>>, fields |-> <<
              Fld(<<"N","a","m","e">>, <<>>, "string"),
              Fld(<<"N","o","t","e">>, <<"n","o","t","e">>, "ptr"),
              Fld(<<"T","m","p">>, <<"-">>, "int") >>],
     P |-> [name |-> <<"P">>, recv |-> "none", tname |-> <<>>, fields |-> <<
              Emb("NoteInfo", <<"N","o","t","e","I","n","f","o">>),
              Fld(<<"I","D">>, <<>>, "int") >>],
     S |-> [name |-> <<"S">>, recv |-> "none", tname |-> <<>>, fields |-> <<
              Fld(<<"C","o","d","e">>, <<"p","k">>, "string"),
              Fld(<<"V","a","l">>, <<"v","a","l",","," ","r","o">>, "string"),
              Fld(<<"R","e","f">>, <<"r","e","f",",","f","k","=","a",".","i","d">>, "int") >>],
     W |-> [name |-> <<"W">>, recv |-> "none", tname |-> <<>>, fields |-> <<
              Fld(<<"K","e","y">>, <<" ","p","k">>, "int"),
              Fld(<<"N","u","m">>, <<" ","i","d"," ">>, "int"),
              Fld(<<"U","s","e","r","I","D">>, <<>>, "int") >>],
     T |-> [name |-> <<"T">>, recv |-> "value", tname |-> <<"u","s","e","r","s">>,
            fields |-> <<
              Fld(<<"I","D">>, <<>>, "int"),
              Fld(<<"N","a","m","e">>, <<>>, "string") >>],
     U |-> [name |-> <<"U">>, recv |-> "ptr", tname |-> <<"m","e","m","b","e","r","s">>,
            fields |-> <<
              Fld(<<"I","D">>, <<"i","d">>, "int"),
              Fld(<<"E","m","a","i","l">>, <<>>, "string") >>],
     E |-> [name |-> <<"E">>, recv |-> "none", tname |-> <<>>, fields |-> <<
              Emb("U", <<"U">>),
              Fld(<<"R","o","l","e">>, <<>>, "string") >>],
     K |-> [name |-> <<"K">>, recv |-> "none", tname |-> <<>>, fields |-> <<
              Fld(<<"C","o","d","e">>, <<"c","o","d","e",",","p","k">>, "int"),
              Fld(<<"V","a","l">>, <<"v","a","l">>, "slice"),
              Fld(<<"M","e","t","a">>, <<"m","e","t","a">>, "map") >>],
     R |-> [name |-> <<"R">>, recv |-> "none", tname |-> <<>>, fields |-> <<
              Fld(<<"I","D">>, <<>>, "int"),
              Fld(<<"S","u","m">>, <<",","r","e","a","d","o","n","l","y">>, "int") >>],
     Q |-> [name |-> <<"Q">>, recv |-> "none", tname |-> <<>>, fields |-> <<
              Fld(<<"I","D">>, <<>>, "int"),
              [Emb("A", <<"a">>) EXCEPT !.exported = FALSE] >>],
     D |-> [name |-> <<"D">>, recv |-> "none", tname |-> <<>>, fields |-> <<
              Emb("S", <<"S">>),
              Fld(<<"O","w","n","e","r">>,
                  <<"o","w","n","e","r",",","f","k","=","u",".","i","d">>, "int") >>],
     X |-> [name |-> <<"X">>, recv |-> "value", tname |-> <<"a">>, fields |-> <<
              Fld(<<"N","a","m","e">>, <<>>, "string") >>],
     Y |-> [name |-> <<"Y">>, recv |-> "none", tname |-> <<>>, fields |-> <<
              Emb("A", <<"A">>),
              Emb("X", <<"X">>) >>]]

\* the shapes of argument the callers pass: T, *T, []T, *[]T
Forms == {"struct", "ptr", "slice", "ptrslice"}

(***************************************************************************)
(* Go values.                                                              *)
(***************************************************************************)
Nil == "nil"
ErrInvalidType == "invalid type"
ErrFieldNotFound == "field not found"
ErrNotFound == "sql: no rows in result set"
Panic == "panic"

\* the migration table: the names it records, and how often the up SQL of
\* each name has been executed and committed
NoMigrations == [names |-> {}, applied |-> <<>>]

UntypedNil == [k |-> "nil", nil |-> TRUE, v |-> 0]

RECURSIVE PathCode(_)
PathCode(path) == IF path = <<>> THEN 0 ELSE (Head(path) + 1) + 10 * PathCode(Tail(path))

\* the kinds whose values can be nil
NilableKinds == {"ptr", "map", "interface", "slice", "func", "chan"}

\* the k-th sample record of type t, as the value of the field at path:
\* every leaf holds a value of its own, a leaf of a kind that can be nil is
\* nil in the odd samples
RECURSIVE MkRec(_, _, _)
MkRec(t, k, path) ==
    [i \in 1..Len(Types[t].fields) |->
        LET f == Types[t].fields[i]
            p == Append(path, i - 1)
        IN IF f.kind = "struct" THEN MkRec(f.etyp, k, p)
           ELSE IF f.kind \in NilableKinds /\ k % 2 = 1
                THEN [k |-> f.kind, nil |-> TRUE, v |-> 0]
                ELSE [k |-> f.kind, nil |-> FALSE, v |-> 1000 * k + PathCode(p)]]

Samples == 1..MaxSample

\* reflect.Value.FieldByIndex
RECURSIVE FieldByIndex(_, _)
FieldByIndex(val, index) ==
    IF index = <<>> THEN val ELSE FieldByIndex(val[Head(index) + 1], Tail(index))

\* assignment through the address of the field at index
RECURSIVE SetByIndex(_, _, _)
SetByIndex(val, index, x) ==
    IF index = <<>> THEN x
    ELSE [val EXCEPT ![Head(index) + 1] = SetByIndex(val[Head(index) + 1], Tail(index), x)]

(***************************************************************************)
(* The descriptor cache and introspection (schema.Get).                    *)
(* A descriptor pointer is the pair <<table, type>> it was built for; the  *)
(* heap maps the pointers that exist to [Parent, Table, Type, Fields].     *)
(***************************************************************************)
NoSchema == <<>>
NoFK == <<>>

lookup(st, key) == IF key \in DOMAIN st.cache THEN st.cache[key] ELSE NoSchema

save(st, key, id, s) ==
    [cache |-> (key :> id) @@ st.cache, heap |-> (id :> s) @@ st.heap]

\* v.(Record): the method set of T holds the value-receiver methods only,
\* that of *T holds both; a slice has no methods
IsRecord(form, t) ==
    \/ form = "struct" /\ Types[t].recv = "value"
    \/ form = "ptr" /\ Types[t].recv \in {"value", "ptr"}

\* the values that do not reduce to a struct: an int, a []int
ScalarForms == {"scalar", "scalarslice"}

\* fmt.Errorf("%w: %s", err, kind)
Wrap(err, kind) == err \o ": " \o kind

\* infer: the struct type v reduces to and the kind of the reflect value
\* that is returned with it
infer(form, t) ==
    IF form \in ScalarForms
    THEN [typ |-> "int",
          valKind |-> IF form = "scalar" THEN "int" ELSE "slice",
          err |-> Wrap(ErrInvalidType, "int")]
    ELSE [typ |-> t,
          valKind |-> IF form \in {"slice", "ptrslice"} THEN "slice" ELSE "struct",
          err |-> Nil]

\* the modifiers of a db tag, parts[i..]
RECURSIVE tagParts(_, _, _)
tagParts(parts, i, info) ==
    IF i > Len(parts) THEN info
    ELSE IF i = 1
    THEN tagParts(parts, i + 1,
            IF parts[1] = <<"i","d">> \/ parts[1] = <<"p","k">>
            THEN [info EXCEPT !.PK = TRUE, !.ReadOnly = TRUE] ELSE info)
    ELSE LET part == Trim(parts[i])
         IN IF HasPrefix(part, <<"f","k","=">>)
            THEN LET val == Trim(TrimPrefix(part, <<"f","k","=">>))
                     ps == Split(val, ".")
                 IN IF Len(ps) # 2 THEN tagParts(parts, i + 1, info)
                    ELSE tagParts(parts, i + 1, [info EXCEPT !.FK = <<ps[1], ps[2]>>])
            ELSE IF part = <<"r","o">> \/ part = <<"r","e","a","d","o","n","l","y">>
                 THEN tagParts(parts, i + 1, [info EXCEPT !.ReadOnly = TRUE])
                 ELSE tagParts(parts, i + 1, info)

\* the descriptor of a field that is not embedded and not excluded
leafField(f, i) ==
    IF f.tag = <<>>
    THEN LET col == snakecase(f.name)
         IN [Name |-> f.name, Column |-> col, Index |-> i,
             PK |-> col = <<"i","d">>, ReadOnly |-> col = <<"i","d">>,
             FK |-> NoFK, Schema |-> NoSchema]
    ELSE LET parts == Split(f.tag, ",")
             column == Trim(parts[1])
         IN tagParts(parts, 1,
                [Name |-> f.name, Column |-> column, Index |-> i,
                 PK |-> column = <<"i","d">>, ReadOnly |-> column = <<"i","d">>,
                 FK |-> NoFK, Schema |-> NoSchema])

RECURSIVE Get(_, _, _)
RECURSIVE getFields(_, _, _, _, _, _)
\* the loop over typ.Field(i), from declared field i on
getFields(t, valKind, self, i, st, fields) ==
    IF i > Len(Types[t].fields) THEN [st |-> st, fields |-> fields, err |-> Nil]
    ELSE LET f == Types[t].fields[i]
         IN IF f.anon /\ f.exported
            THEN IF valKind # "struct"
                 THEN [st |-> st, fields |-> fields, err |-> Panic]
                 ELSE LET r == Get("struct", f.etyp, st)
                      IN IF r.sch = NoSchema
                         THEN [st |-> r.st, fields |-> fields, err |-> Panic]
                         ELSE getFields(t, valKind, self, i + 1,
                                [r.st EXCEPT !.heap[r.sch].Parent = self],
                                Append(fields,
                                  [Name |-> f.name, Column |-> <<>>, Index |-> i - 1,
                                   PK |-> FALSE, ReadOnly |-> FALSE,
                                   FK |-> NoFK, Schema |-> r.sch]))
            ELSE IF f.tag = <<"-">>
                 THEN getFields(t, valKind, self, i + 1, st, fields)
                 ELSE getFields(t, valKind, self, i + 1, st,
                                Append(fields, leafField(f, i - 1)))

\* the end of Get: the descriptor built from the fields r is saved under
\* table, unless the loop over the fields failed
saveFields(table, typ, r) ==
    IF r.err # Nil THEN [st |-> r.st, sch |-> NoSchema, err |-> r.err]
    ELSE [st |-> save(r.st, table, <<table, typ>>,
                      [Parent |-> NoSchema, Table |-> table,
                       Type |-> typ, Fields |-> r.fields]),
          sch |-> <<table, typ>>, err |-> Nil]

\* schema.Get(v) for a v of the given form over type t, in cache state st:
\* the state it leaves, the descriptor it returns and its error
Get(form, t, st) ==
    LET isRecord == IsRecord(form, t)
        table0 == IF isRecord THEN Types[t].tname ELSE <<>>
    IN IF isRecord /\ lookup(st, table0) # NoSchema
       THEN [st |-> st, sch |-> lookup(st, table0), err |-> Nil]
       ELSE LET inf == infer(form, t)
                table == IF table0 = <<>> THEN snakecase(Types[inf.typ].name) ELSE table0
            IN IF inf.err # Nil THEN [st |-> st, sch |-> NoSchema, err |-> inf.err]
               ELSE IF lookup(st, table) # NoSchema
               THEN [st |-> st, sch |-> lookup(st, table), err |-> Nil]
               ELSE saveFields(table, inf.typ,
                               getFields(inf.typ, inf.valKind, <<table, inf.typ>>,
                                         1, st, <<>>))

(***************************************************************************)
(* Queries over a descriptor tree (src/schema/field.go).                   *)
(***************************************************************************)
HasSchema(f) == f.Schema # NoSchema
IsWriteable(f) == ~f.ReadOnly /\ ~f.PK

NoField == [Name |-> <<>>, Column |-> <<>>, Index |-> 0, PK |-> FALSE,
            ReadOnly |-> FALSE, FK |-> NoFK, Schema |-> NoSchema]

\* the predicates Find is called with: FindPK and FindByColumn(col)
PredPK == [kind |-> "pk", col |-> <<>>]
PredColumn(col) == [kind |-> "col", col |-> col]
Match(pred, f) == IF pred.kind = "pk" THEN f.PK ELSE f.Column = pred.col

RECURSIVE Find(_, _, _, _)
\* Find that forgets the slot of the embedded struct it went into: the path
\* it returns is the one inside the embedded struct
FindInnerPath(fields, i, pred, hp) ==
    IF i > Len(fields) THEN [f |-> NoField, index |-> <<>>, err |-> ErrFieldNotFound]
    ELSE IF Match(pred, fields[i])
    THEN [f |-> fields[i], index |-> <<fields[i].Index>>, err |-> Nil]
    ELSE IF HasSchema(fields[i])
    THEN Find(hp[fields[i].Schema].Fields, 1, pred, hp)
    ELSE Find(fields, i + 1, pred, hp)

\* Fields.Find: the loop from field i on; an embedded descriptor without a
\* match ends the loop (break)
Find(fields, i, pred, hp) ==
    IF i > Len(fields) THEN [f |-> NoField, index |-> <<>>, err |-> ErrFieldNotFound]
    ELSE LET field == fields[i]
         IN IF Match(pred, field)
            THEN [f |-> field, index |-> <<field.Index>>, err |-> Nil]
            ELSE IF HasSchema(field)
            THEN LET r == Find(hp[field.Schema].Fields, 1, pred, hp)
                 IN IF r.err # Nil
                    THEN [f |-> NoField, index |-> <<>>, err |-> ErrFieldNotFound]
                    ELSE [f |-> r.f, index |-> <<field.Index>> \o r.index, err |-> Nil]
            ELSE Find(fields, i + 1, pred, hp)

FindPK(fields, hp) == Find(fields, 1, PredPK, hp)
FindByColumn(fields, col, hp) == Find(fields, 1, PredColumn(col), hp)

\* Writeable with the filter on PK alone: the read-only fields stay in
RECURSIVE WriteableOnlyPK(_, _)
WriteableOnlyPK(fields, hp) ==
    IF fields = <<>> THEN <<>>
    ELSE LET field == Head(fields)
         IN IF field.PK THEN WriteableOnlyPK(Tail(fields), hp)
            ELSE IF HasSchema(field)
            THEN WriteableOnlyPK(hp[field.Schema].Fields, hp)
                    \o WriteableOnlyPK(Tail(fields), hp)
            ELSE <<field>> \o WriteableOnlyPK(Tail(fields), hp)

\* Fields.Writeable
RECURSIVE Writeable(_, _)
Writeable(fields, hp) ==
    IF fields = <<>> THEN <<>>
    ELSE LET field == Head(fields)
         IN IF ~IsWriteable(field) THEN Writeable(Tail(fields), hp)
            ELSE IF HasSchema(field)
            THEN Writeable(hp[field.Schema].Fields, hp) \o Writeable(Tail(fields), hp)
            ELSE <<field>> \o Writeable(Tail(fields), hp)

\* Columns that does not go into the embedded structs
RECURSIVE ColumnsShallow(_, _)
ColumnsShallow(fields, hp) ==
    IF fields = <<>> THEN <<>>
    ELSE IF HasSchema(Head(fields)) THEN ColumnsShallow(Tail(fields), hp)
    ELSE <<Head(fields).Column>> \o ColumnsShallow(Tail(fields), hp)

\* Fields.Columns
RECURSIVE Columns(_, _)
Columns(fields, hp) ==
    IF fields = <<>> THEN <<>>
    ELSE LET f == Head(fields)
         IN IF HasSchema(f)
            THEN Columns(hp[f.Schema].Fields, hp) \o Columns(Tail(fields), hp)
            ELSE <<f.Column>> \o Columns(Tail(fields), hp)

\* Fields.FindFKS: the fields of this list that carry a foreign key
FindFKS(fields) == SelectSeq(fields, LAMBDA f : f.FK # NoFK)

(***************************************************************************)
(* Formatting of column lists (src/schema/columns.go).                     *)
(***************************************************************************)
List(c) == Join([i \in 1..Len(c) |-> Str(c[i])], ", ")
ValueList(c, start) ==
    Join([i \in 1..Len(c) |-> "$" \o ToString(start + i - 1)], ", ")
\* AssignmentList that numbers its placeholders from 1 whatever start is
AssignmentListFromOne(c, start) ==
    Join([i \in 1..Len(c) |-> Str(c[i]) \o " = $" \o ToString(i)], ", ")

AssignmentList(c, start) ==
    Join([i \in 1..Len(c) |-> Str(c[i]) \o " = $" \o ToString(start + i - 1)], ", ")

(***************************************************************************)
(* Value extraction and addressing (Values, Addrs).                        *)
(***************************************************************************)
\* inferValue: a slice or pointer is dereferenced with Elem, which panics on
\* a slice; the panic is recovered and leaves the error set
inferValue(form) ==
    IF form \in {"struct", "ptr"} THEN Nil ELSE ErrInvalidType

\* the declared struct type of field number index of type t
FieldType(t, index) == Types[t].fields[index + 1].etyp

RECURSIVE Values(_, _, _, _)
RECURSIVE valuesLoop(_, _, _, _, _, _)
\* the loop of Values without the test on IsNil: a nil pointer, map or slice
\* goes out as the typed nil it is
valuesLoopTypedNil(t, sv, fields, i, st, values) ==
    IF i > Len(fields) THEN [st |-> st, values |-> values, err |-> Nil]
    ELSE IF ~IsWriteable(fields[i]) THEN valuesLoop(t, sv, fields, i + 1, st, values)
    ELSE IF HasSchema(fields[i])
    THEN valuesLoop(t, sv, fields, i + 1, st,
                    values \o Values("struct", FieldType(t, fields[i].Index),
                                     sv[fields[i].Index + 1], st).values)
    ELSE valuesLoop(t, sv, fields, i + 1, st, Append(values, sv[fields[i].Index + 1]))

\* the loop of Values without the test on IsWriteable: every field is taken
valuesLoopAll(t, sv, fields, i, st, values) ==
    IF i > Len(fields) THEN [st |-> st, values |-> values, err |-> Nil]
    ELSE LET field == fields[i]
             v == sv[field.Index + 1]
         IN IF HasSchema(field)
            THEN LET r == Values("struct", FieldType(t, field.Index), v, st)
                 IN valuesLoop(t, sv, fields, i + 1, r.st, values \o r.values)
            ELSE IF v.k \in NilableKinds /\ v.nil
                 THEN valuesLoop(t, sv, fields, i + 1, st, Append(values, UntypedNil))
                 ELSE valuesLoop(t, sv, fields, i + 1, st, Append(values, v))

\* the loop of Values over sch.Fields, from field i on; sv is the struct value
valuesLoop(t, sv, fields, i, st, values) ==
    IF i > Len(fields) THEN [st |-> st, values |-> values, err |-> Nil]
    ELSE LET field == fields[i]
         IN IF ~IsWriteable(field) THEN valuesLoop(t, sv, fields, i + 1, st, values)
            ELSE LET v == sv[field.Index + 1]
                 IN IF HasSchema(field)
                    THEN LET r == Values("struct", FieldType(t, field.Index), v, st)
                         IN valuesLoop(t, sv, fields, i + 1, r.st, values \o r.values)
                    ELSE IF v.k \in NilableKinds /\ v.nil
                         THEN valuesLoop(t, sv, fields, i + 1, st, Append(values, UntypedNil))
                         ELSE valuesLoop(t, sv, fields, i + 1, st, Append(values, v))

\* Values after its call of Get, which returned g
valuesOf(form, t, sv, g) ==
    IF g.err # Nil THEN [st |-> g.st, values |-> <<>>, err |-> g.err]
    ELSE IF inferValue(form) # Nil
    THEN [st |-> g.st, values |-> <<>>, err |-> inferValue(form)]
    ELSE valuesLoop(t, sv, g.st.heap[g.sch].Fields, 1, g.st, <<>>)

\* schema.Values(v), v of the given form over the struct value sv of type t
Values(form, t, sv, st) == valuesOf(form, t, sv, Get(form, t, st))

RECURSIVE Addrs(_, _, _, _)
RECURSIVE addrsLoop(_, _, _, _, _, _)
\* the loop of Addrs that takes the addresses of an embedded struct from a
\* copy of it: they are index paths from the copy, not from the caller's record
addrsLoopOfCopy(t, path, fields, i, st, values) ==
    IF i > Len(fields) THEN [st |-> st, values |-> values, err |-> Nil]
    ELSE LET f == fields[i]
         IN IF HasSchema(f)
            THEN LET r == Addrs("ptr", FieldType(t, f.Index), <<>>, st)
                 IN IF r.err # Nil THEN [st |-> r.st, values |-> <<>>, err |-> r.err]
                    ELSE addrsLoop(t, path, fields, i + 1, r.st, values \o r.values)
            ELSE addrsLoop(t, path, fields, i + 1, st, Append(values, Append(path, f.Index)))

\* the loop of Addrs over sch.Fields, from field i on; an address is the
\* index path of the field from the record the caller passed
addrsLoop(t, path, fields, i, st, values) ==
    IF i > Len(fields) THEN [st |-> st, values |-> values, err |-> Nil]
    ELSE LET f == fields[i]
             p == Append(path, f.Index)
         IN IF HasSchema(f)
            THEN LET r == Addrs("ptr", FieldType(t, f.Index), p, st)
                 IN IF r.err # Nil THEN [st |-> r.st, values |-> <<>>, err |-> r.err]
                    ELSE addrsLoop(t, path, fields, i + 1, r.st, values \o r.values)
            ELSE addrsLoop(t, path, fields, i + 1, st, Append(values, p))

\* Addrs after its call of Get, which returned g; taking the address of a
\* field of a struct that was passed by value panics
addrsOf(form, t, path, g) ==
    IF g.err # Nil THEN [st |-> g.st, values |-> <<>>, err |-> g.err]
    ELSE IF inferValue(form) # Nil
    THEN [st |-> g.st, values |-> <<>>, err |-> inferValue(form)]
    ELSE IF form # "ptr" /\ g.st.heap[g.sch].Fields # <<>>
    THEN [st |-> g.st, values |-> <<>>, err |-> Panic]
    ELSE addrsLoop(t, path, g.st.heap[g.sch].Fields, 1, g.st, <<>>)

\* schema.Addrs(v), v of the given form over the struct of type t that lies
\* at path in the caller's record
Addrs(form, t, path, st) == addrsOf(form, t, path, Get(form, t, st))

(***************************************************************************)
(* The executor the callers supply, and the CRUD functions                 *)
(* (src/unnamed/part_014).  What the database answers is an input:         *)
(*   "ok"      the statement succeeds (a query yields its rows)            *)
(*   "norow"   a single-row query matches no row                           *)
(*   "err"     the driver reports an error                                 *)
(*   "nilrow"  QueryRow hands back a nil row, as the mock of the tests     *)
(***************************************************************************)
DbOutcomes == {"ok", "norow", "err", "nilrow"}
DbErr == "db error"
DbIds == {9001, 9002}

Call(fn, sql, args) == [fn |-> fn, sql |-> sql, args |-> args]

\* what an operation leaves: the cache state, the calls it made on the
\* executor, the caller's record (or list) afterwards, and its error
Result(st, calls, after, err) ==
    [st |-> st, calls |-> calls, after |-> after, err |-> err]

\* the declared kind of the field at an index path of type t
RECURSIVE KindAt(_, _)
KindAt(t, index) ==
    LET f == Types[t].fields[Head(index) + 1]
    IN IF Len(index) = 1 THEN f.kind ELSE KindAt(f.etyp, Tail(index))

\* the value a driver stores through a scan destination of the given kind
Scanned(kind, n) == [k |-> kind, nil |-> FALSE, v |-> n]

\* the zero value of type t (reflect.New(t).Elem())
RECURSIVE Zero(_)
Zero(t) ==
    [i \in 1..Len(Types[t].fields) |->
        LET f == Types[t].fields[i]
        IN IF f.kind = "struct" THEN Zero(f.etyp)
           ELSE [k |-> f.kind, nil |-> f.kind \in NilableKinds, v |-> 0]]

\* row.Scan(dests...): column number i of the row arrives as 8000 + i
RECURSIVE scanInto(_, _, _, _)
scanInto(t, rec, dests, i) ==
    IF i > Len(dests) THEN rec
    ELSE scanInto(t, SetByIndex(rec, dests[i], Scanned(KindAt(t, dests[i]), 8000 + i)),
                  dests, i + 1)

\* an Add that stores a key in the record before it looks at the outcome of
\* the scan
addExecKeyFirst(t, rec, db, id, sql, vr, pk) ==
    IF pk.err = ErrFieldNotFound
    THEN Result(vr.st, <<Call("Exec", sql, vr.values)>>, rec,
                IF db = "err" THEN DbErr ELSE Nil)
    ELSE LET sql2 == sql \o " returning " \o Str(pk.f.Column)
             calls == <<Call("QueryRow", sql2, vr.values)>>
             set == SetByIndex(rec, pk.index, Scanned(KindAt(t, pk.index), 8000))
         IN CASE db = "nilrow" -> Result(vr.st, calls, rec, Panic)
              [] db = "err" -> Result(vr.st, calls, set, DbErr)
              [] db = "norow" -> Result(vr.st, calls, set, ErrNotFound)
              [] OTHER ->
                   Result(vr.st, calls,
                          SetByIndex(rec, pk.index, Scanned(KindAt(t, pk.index), id)),
                          Nil)

\* the end of Add: the statement sql goes out with the values vr; pk is what
\* FindPK returned
addExec(t, rec, db, id, sql, vr, pk) ==
    IF pk.err = ErrFieldNotFound
    THEN Result(vr.st, <<Call("Exec", sql, vr.values)>>, rec,
                IF db = "err" THEN DbErr ELSE Nil)
    ELSE LET sql2 == sql \o " returning " \o Str(pk.f.Column)
             calls == <<Call("QueryRow", sql2, vr.values)>>
         IN CASE db = "nilrow" -> Result(vr.st, calls, rec, Panic)
              [] db = "err" -> Result(vr.st, calls, rec, DbErr)
              [] db = "norow" -> Result(vr.st, calls, rec, ErrNotFound)
              [] OTHER ->
                   Result(vr.st, calls,
                          SetByIndex(rec, pk.index, Scanned(KindAt(t, pk.index), id)),
                          Nil)

\* Add after Values returned vr for the descriptor sch
addValues(t, rec, db, id, sch, sql, vr) ==
    IF vr.err # Nil THEN Result(vr.st, <<>>, rec, vr.err)
    ELSE addExec(t, rec, db, id, sql, vr, FindPK(sch.Fields, vr.st.heap))

\* Add after GetMapping returned g
addMapped(t, rec, db, id, g) ==
    IF g.err # Nil THEN Result(g.st, <<>>, rec, g.err)
    ELSE LET sch == g.st.heap[g.sch]
             cols == Columns(Writeable(sch.Fields, g.st.heap), g.st.heap)
         IN addValues(t, rec, db, id, sch,
                      "INSERT INTO " \o Str(sch.Table) \o " (" \o List(cols)
                        \o ") VALUES (" \o ValueList(cols, 1) \o ")",
                      Values("ptr", t, rec, g.st))

\* Add(db, v), v a pointer to rec of type t; the database answers db and,
\* for a returning clause, the identity id
Add(t, rec, db, id, st) == addMapped(t, rec, db, id, Get("ptr", t, st))

RECURSIVE addManyLoop(_, _, _, _, _, _, _, _)
\* the body of the loop of AddMany for record i, after Values returned vr
addManyRow(t, recs, i, cols, counter, valueParts, args, vr) ==
    IF vr.err # Nil
    THEN [st |-> vr.st, valueParts |-> valueParts, args |-> args, err |-> vr.err]
    ELSE addManyLoop(t, recs, i + 1, cols, counter + Len(cols), vr.st,
                     Append(valueParts, "(" \o ValueList(cols, counter) \o ")"),
                     args \o vr.values)

\* the loop of AddMany over the records of the slice, from record i on
addManyLoop(t, recs, i, cols, counter, st, valueParts, args) ==
    IF i > Len(recs)
    THEN [st |-> st, valueParts |-> valueParts, args |-> args, err |-> Nil]
    ELSE addManyRow(t, recs, i, cols, counter, valueParts, args,
                    Values("struct", t, recs[i], st))

\* the end of AddMany: one statement goes out with the values of all records
addManyExec(recs, db, table, cols, lr) ==
    IF lr.err # Nil THEN Result(lr.st, <<>>, recs, lr.err)
    ELSE Result(lr.st,
                <<Call("Exec",
                       "INSERT INTO " \o Str(table) \o " (" \o List(cols)
                         \o ") VALUES " \o Join(lr.valueParts, ", "),
                       lr.args)>>,
                recs, IF db = "err" THEN DbErr ELSE Nil)

addManyColumns(t, recs, db, table, cols, st) ==
    addManyExec(recs, db, table, cols,
                addManyLoop(t, recs, 1, cols, 1, st, <<>>, <<>>))

\* AddMany after GetMapping returned g
addManyMapped(t, recs, db, g) ==
    IF g.err # Nil THEN Result(g.st, <<>>, recs, g.err)
    ELSE addManyColumns(t, recs, db, g.st.heap[g.sch].Table,
                        Columns(Writeable(g.st.heap[g.sch].Fields, g.st.heap),
                                g.st.heap),
                        g.st)

\* AddMany(db, v), v of the given form over the records recs of type t
AddMany(form, t, recs, db, st) ==
    IF form # "slice" THEN Result(st, <<>>, recs, ErrInvalidType)
    ELSE addManyMapped(t, recs, db, Get("slice", t, st))

\* the end of Update: the statement s goes out with args and the values vr
updateExec(rec, args, db, s, vr) ==
    IF vr.err # Nil THEN Result(vr.st, <<>>, rec, vr.err)
    ELSE Result(vr.st, <<Call("Exec", s, args \o vr.values)>>, rec,
                IF db = "err" THEN DbErr ELSE Nil)

\* Update after GetMapping returned g
updateMapped(t, rec, sql, args, db, g) ==
    IF g.err # Nil THEN Result(g.st, <<>>, rec, g.err)
    ELSE LET start == Len(args) + 1
             sch == g.st.heap[g.sch]
             assignments ==
                 AssignmentList(Columns(Writeable(sch.Fields, g.st.heap), g.st.heap), start)
             s0 == "UPDATE " \o Str(sch.Table) \o " SET " \o assignments
         IN updateExec(rec, args, db,
                       IF sql # <<>> THEN s0 \o " " \o Str(sql) ELSE s0,
                       Values("ptr", t, rec, g.st))

\* Update(db, v, sql, args...), v a pointer to rec of type t
Update(t, rec, sql, args, db, st) ==
    updateMapped(t, rec, sql, args, db, Get("ptr", t, st))

\* the end of UpdateByID: the key is read with reflect's Value.Int, which
\* panics unless the kind of the field is a signed integer
updateByIDExec(rec, db, sql0, pk, m, vr) ==
    IF vr.err # Nil THEN Result(vr.st, <<>>, rec, vr.err)
    ELSE LET f == FieldByIndex(rec, pk.index)
         IN IF f.k # "int" THEN Result(vr.st, <<>>, rec, Panic)
            ELSE LET id == [k |-> "int", nil |-> FALSE, v |-> f.v]
                     sql == sql0 \o " where " \o Str(pk.f.Column)
                              \o " = $" \o ToString(m + 1)
                 IN Result(vr.st, <<Call("Exec", sql, Append(vr.values, id))>>,
                           rec, IF db = "err" THEN DbErr ELSE Nil)

\* UpdateByID after FindPK returned pk
updateByIDKey(t, rec, db, g, pk) ==
    IF pk.err # Nil THEN Result(g.st, <<>>, rec, pk.err)
    ELSE LET sch == g.st.heap[g.sch]
             cols == Columns(Writeable(sch.Fields, g.st.heap), g.st.heap)
         IN updateByIDExec(rec, db,
                           "update " \o Str(sch.Table) \o " set "
                             \o AssignmentList(cols, 1),
                           pk, Len(cols), Values("ptr", t, rec, g.st))

\* UpdateByID after GetMapping returned g
updateByIDMapped(t, rec, db, g) ==
    IF g.err # Nil THEN Result(g.st, <<>>, rec, g.err)
    ELSE updateByIDKey(t, rec, db, g, FindPK(g.st.heap[g.sch].Fields, g.st.heap))

\* UpdateByID(db, v), v a pointer to rec of type t
UpdateByID(t, rec, db, st) == updateByIDMapped(t, rec, db, Get("ptr", t, st))

\* Scan after Addrs returned a
scanAddrs(t, rec, db, a) ==
    IF a.err # Nil THEN Result(a.st, <<>>, rec, a.err)
    ELSE IF db = "norow" THEN Result(a.st, <<>>, rec, ErrNotFound)
    ELSE IF db = "err" THEN Result(a.st, <<>>, rec, DbErr)
    ELSE Result(a.st, <<>>, scanInto(t, rec, a.values, 1), Nil)

\* Scan that reports no error when the row is missing
ScanIgnoringNoRows(t, rec, db, st) ==
    scanAddrs(t, rec, IF db = "norow" THEN "ok" ELSE db, Addrs("ptr", t, <<>>, st))

\* Scan(row, v): the addresses of v, then the row's Scan
Scan(t, rec, db, st) == scanAddrs(t, rec, db, Addrs("ptr", t, <<>>, st))

\* what a fetch returns: the calls it made and what its scan left
fetched(calls, sc) == Result(sc.st, calls, sc.after, sc.err)

\* Get of package orm after GetMapping returned g
getMapped(t, rec, s, args, db, g) ==
    IF g.err # Nil THEN Result(g.st, <<>>, rec, g.err)
    ELSE LET cols == List(Columns(g.st.heap[g.sch].Fields, g.st.heap))
             q0 == "SELECT " \o cols \o " FROM " \o Str(g.st.heap[g.sch].Table)
             q == IF s # <<>> THEN q0 \o " " \o Str(s) ELSE q0
             calls == <<Call("QueryRow", q, args)>>
         IN CASE db = "nilrow" -> Result(g.st, calls, rec, ErrNotFound)
              [] db = "err" -> Result(g.st, calls, rec, DbErr)
              [] OTHER -> fetched(calls, Scan(t, rec, db, g.st))

\* Get(db, v, s, args...) of package orm, v a pointer to rec of type t
OrmGet(t, rec, s, args, db, st) == getMapped(t, rec, s, args, db, Get("ptr", t, st))

\* GetByID after GetMapping returned g: FindPK, then Get with the predicate
\* on the key column and the value at the key's index
getByIDMapped(t, rec, db, g) ==
    IF g.err # Nil THEN Result(g.st, <<>>, rec, g.err)
    ELSE IF FindPK(g.st.heap[g.sch].Fields, g.st.heap).err # Nil
    THEN Result(g.st, <<>>, rec, FindPK(g.st.heap[g.sch].Fields, g.st.heap).err)
    ELSE OrmGet(t, rec,
                <<"W","H","E","R","E"," ">>
                  \o FindPK(g.st.heap[g.sch].Fields, g.st.heap).f.Column
                  \o <<" ","="," ","$","1">>,
                <<FieldByIndex(rec, FindPK(g.st.heap[g.sch].Fields, g.st.heap).index)>>,
                db, g.st)

\* GetByID(db, v), v a pointer to rec of type t
GetByID(t, rec, db, st) == getByIDMapped(t, rec, db, Get("ptr", t, st))

\* RemoveByID after GetMapping returned g
removeByIDMapped(rec, db, g) ==
    IF g.err # Nil THEN Result(g.st, <<>>, rec, g.err)
    ELSE IF FindPK(g.st.heap[g.sch].Fields, g.st.heap).err # Nil
    THEN Result(g.st, <<>>, rec, FindPK(g.st.heap[g.sch].Fields, g.st.heap).err)
    ELSE Result(g.st,
                <<Call("Exec",
                       "DELETE FROM " \o Str(g.st.heap[g.sch].Table) \o " WHERE "
                         \o Str(FindPK(g.st.heap[g.sch].Fields, g.st.heap).f.Column)
                         \o " = $1",
                       <<FieldByIndex(rec,
                           FindPK(g.st.heap[g.sch].Fields, g.st.heap).index)>>)>>,
                rec, IF db = "err" THEN DbErr ELSE Nil)

\* RemoveByID(db, v), v a pointer to rec of type t
RemoveByID(t, rec, db, st) == removeByIDMapped(rec, db, Get("ptr", t, st))

RECURSIVE listRows(_, _, _, _)
\* one turn of the loop of List: sc is what Scan left of the row
listRow(typ, n, items, sc) ==
    IF sc.err # Nil THEN Result(sc.st, <<>>, items, sc.err)
    ELSE listRows(typ, n - 1, sc.st, Append(items, sc.after))

\* the loop of List over the cursor: n rows left, each scanned into a fresh
\* record of the descriptor's type and appended
listRows(typ, n, st, items) ==
    IF n = 0 THEN Result(st, <<>>, items, Nil)
    ELSE listRow(typ, n, items, Scan(typ, Zero(typ), "ok", st))

\* strings.Trim(head + " " + tail, " "), tail the caller's text; head is
\* generated text that neither starts nor ends with a space
\* the same text left untrimmed
TrimSQLNone(head, tail) == head \o " " \o Str(tail)

TrimSQL(head, tail) == head \o Str(TrimRight(<<" ">> \o tail))

\* List after GetMapping returned g
listMapped(form, items, sql, args, db, n, g) ==
    IF g.err # Nil THEN Result(g.st, <<>>, items, g.err)
    ELSE IF form # "ptrslice" THEN Result(g.st, <<>>, items, Panic)
    ELSE LET cols == List(Columns(g.st.heap[g.sch].Fields, g.st.heap))
             sql2 == TrimSQL("SELECT " \o cols \o " FROM "
                               \o Str(g.st.heap[g.sch].Table), sql)
             calls == <<Call("Query", sql2, args)>>
         IN IF db = "err" THEN Result(g.st, calls, items, DbErr)
            ELSE fetched(calls, listRows(g.st.heap[g.sch].Type, n, g.st, items))

\* List(db, v, sql, args...): v is a slice of t (form "slice") or a pointer
\* to one (form "ptrslice") holding items; the cursor yields n rows
OrmList(form, t, items, sql, args, db, n, st) ==
    listMapped(form, items, sql, args, db, n, Get(form, t, st))

(***************************************************************************)
(* CollectRows over a cursor.  A cursor is [rows, scanErrAt, iterErr]: it  *)
(* yields rows rows, the Scan of row scanErrAt fails (0: of none), and     *)
(* after the last row it either is exhausted or has failed (iterErr), in   *)
(* both of which cases Next returns false; the Rows interface has no way   *)
(* to tell them apart.  calls are the calls made on the cursor.            *)
(***************************************************************************)
NoCursor == [rows |-> 0, scanErrAt |-> 0, iterErr |-> FALSE]
IterErr == "iteration error"

RECURSIVE collectLoop(_, _, _, _, _, _)
\* one turn of the loop: sc is what Scan left of row j
collectRow(t, cur, j, items, calls, sc) ==
    IF sc.err # Nil THEN Result(sc.st, Append(calls, "Close"), <<>>, sc.err)
    ELSE collectLoop(t, cur, j + 1, sc.st, Append(items, sc.after), calls)

\* the loop of CollectRows from row j on, and its end; rows.Close is deferred
collectLoop(t, cur, j, st, items, calls) ==
    IF j <= cur.rows
    THEN collectRow(t, cur, j, items, calls \o <<"Next", "Scan">>,
                    Scan(t, Zero(t), IF cur.scanErrAt = j THEN "err" ELSE "ok", st))
    ELSE IF Len(items) = 0
    THEN Result(st, calls \o <<"Next", "Close">>, <<>>, ErrNotFound)
    ELSE Result(st, calls \o <<"Next", "Close">>, items, Nil)

\* CollectRows[T](rows), T the struct type t
CollectRows(t, cur, st) == collectLoop(t, cur, 1, st, <<>>, <<>>)

(***************************************************************************)
(* The calls of the program's users.  Each action is one call of a public  *)
(* function with its arguments; last records the call and what it          *)
(* returned.                                                               *)
(*                                                                         *)
(* The cache is keyed by table name, and a call on a type reads and writes *)
(* only the entries of that type and of the types it embeds.  The callers  *)
(* therefore work on one family of types at a time, as each test of the    *)
(* repository does: root is the record type in use, chosen when the cache  *)
(* is cleared, and the calls between two clears are on root and on the     *)
(* types embedded in it.                                                   *)
(***************************************************************************)
Cur == [cache |-> schemaCache, heap |-> heap]

Commit(st) ==
    /\ schemaCache' = st.cache
    /\ heap' = st.heap
    /\ root' = root
    /\ procs' = procs
    /\ migrations' = migrations

Roots == {"C", "P", "S", "W", "T", "U", "E", "K"}

\* t and the types embedded in it, at any depth
RECURSIVE Members(_)
Members(t) ==
    {t} \cup UNION {Members(Types[t].fields[i].etyp) :
                      i \in {j \in 1..Len(Types[t].fields) :
                               Types[t].fields[j].kind = "struct"}}

NoFind == [f |-> NoField, index |-> <<>>, err |-> Nil]

NoCall ==
    [op |-> "none", form |-> "ptr", typ |-> "C", hit |-> FALSE, sch |-> NoSchema,
     before |-> <<>>, after |-> <<>>, calls |-> <<>>, err |-> Nil,
     db |-> "ok", id |-> 0, s |-> <<>>, args |-> <<>>, n |-> 0,
     pred |-> PredPK, found |-> NoFind, values |-> <<>>, slot |-> 0,
     cur |-> NoCursor]

\* the text the callers put after the generated statement
NoPred == <<>>
WherePred == <<"W","H","E","R","E"," ","x"," ","="," ","$","1">>
Preds == {NoPred, WherePred}

\* a text that ends in a space, as the line of a longer query does
PaddedPred == WherePred \o <<" ">>
FetchPreds == Preds \cup {PaddedPred}

\* k arguments of the caller
ArgsOf(k) == [j \in 1..k |-> [k |-> "int", nil |-> FALSE, v |-> 500 + j]]

\* the arguments that go with a predicate text in a fetch
PredArgs(s) == IF s = NoPred THEN ArgsOf(0) ELSE ArgsOf(1)

\* the columns the callers look for with FindByColumn
SearchColumns ==
    {<<"i","d">>, <<"f","o","o">>, <<"q","u","x">>, <<"n","o","t","e">>, <<"z","z">>}
SearchPreds == {PredPK} \cup {PredColumn(c) : c \in SearchColumns}

Init ==
    /\ schemaCache = <<>>
    /\ heap = <<>>
    /\ root \in Roots
    /\ last = NoCall
    /\ procs = <<>>
    /\ migrations = NoMigrations

\* a call returned r: the cache is as it left it, and last tells what it did
Returned(call, r) ==
    /\ Commit(r.st)
    /\ last' = [call EXCEPT !.after = r.after, !.calls = r.calls, !.err = r.err]

GotSchema(call, r) ==
    /\ Commit(r.st)
    /\ last' = [call EXCEPT !.hit = (r.sch \in DOMAIN heap), !.sch = r.sch,
                             !.err = r.err]

\* schema.Get(v)
DoSchemaGet ==
    \E form \in Forms \cup ScalarForms, t \in Members(root) :
        GotSchema([NoCall EXCEPT !.op = "SchemaGet", !.form = form, !.typ = t],
                  Get(form, t, Cur))

\* schema.ClearCache(): the map is replaced by an empty one, and the
\* descriptors it held are no longer reachable
DoClearCache ==
    /\ schemaCache' = <<>>
    /\ heap' = <<>>
    /\ root' \in Roots
    /\ last' = [NoCall EXCEPT !.op = "ClearCache"]
    /\ procs' = procs
    /\ migrations' = migrations

FoundField(call, g, r) ==
    /\ Commit(g.st)
    /\ last' = [call EXCEPT !.sch = g.sch, !.found = r, !.err = r.err]

SearchedFields(call, pred, g) ==
    /\ g.err = Nil
    /\ FoundField(call, g, Find(g.st.heap[g.sch].Fields, 1, pred, g.st.heap))

\* schema.MustGet(&v).Fields.FindPK() / FindByColumn(col)
DoFind ==
    \E pred \in SearchPreds :
        SearchedFields([NoCall EXCEPT !.op = "Find", !.typ = root, !.pred = pred],
                       pred, Get("ptr", root, Cur))

TookValues(call, r) ==
    /\ Commit(r.st)
    /\ last' = [call EXCEPT !.values = r.values, !.err = r.err]

\* schema.Values(v)
DoValues ==
    \E form \in {"struct", "ptr"}, k \in Samples :
        TookValues([NoCall EXCEPT !.op = "Values", !.form = form, !.typ = root,
                                  !.before = MkRec(root, k, <<>>),
                                  !.after = MkRec(root, k, <<>>)],
                   Values(form, root, MkRec(root, k, <<>>), Cur))

WroteThrough(call, rec, r) ==
    /\ r.err = Nil
    /\ \E i \in 1..Len(r.values) :
          /\ Commit(r.st)
          /\ last' = [call EXCEPT
                         !.values = r.values, !.slot = i,
                         !.after = SetByIndex(rec, r.values[i],
                                      Scanned(KindAt(root, r.values[i]), 7000 + i))]

\* schema.Addrs(&v), then a write through one of the addresses
DoAddrs ==
    WroteThrough([NoCall EXCEPT !.op = "Addrs", !.typ = root,
                                !.before = MkRec(root, 1, <<>>)],
                 MkRec(root, 1, <<>>), Addrs("ptr", root, <<>>, Cur))

\* orm.Add(db, &v)
DoAdd ==
    \E k \in Samples, db \in DbOutcomes :
       \E id \in IF db = "ok" THEN DbIds ELSE {0} :
          Returned([NoCall EXCEPT !.op = "Add", !.typ = root,
                                  !.before = MkRec(root, k, <<>>),
                                  !.db = db, !.id = id],
                   Add(root, MkRec(root, k, <<>>), db, id, Cur))

\* orm.Update(db, &v, sql, args...)
DoUpdate ==
    \E k \in Samples, s \in Preds, n \in 0..MaxArgs :
        Returned([NoCall EXCEPT !.op = "Update", !.typ = root,
                                !.before = MkRec(root, k, <<>>),
                                !.s = s, !.args = ArgsOf(n)],
                 Update(root, MkRec(root, k, <<>>), s, ArgsOf(n), "ok", Cur))

\* orm.UpdateByID(db, &v)
DoUpdateByID ==
    \E k \in Samples, db \in {"ok", "err"} :
        Returned([NoCall EXCEPT !.op = "UpdateByID", !.typ = root,
                                !.before = MkRec(root, k, <<>>), !.db = db],
                 UpdateByID(root, MkRec(root, k, <<>>), db, Cur))

\* orm.RemoveByID(db, &v)
DoRemoveByID ==
    \E k \in Samples, db \in {"ok", "err"} :
        Returned([NoCall EXCEPT !.op = "RemoveByID", !.typ = root,
                                !.before = MkRec(root, k, <<>>), !.db = db],
                 RemoveByID(root, MkRec(root, k, <<>>), db, Cur))

\* orm.GetByID(db, &v)
DoGetByID ==
    \E k \in Samples, db \in DbOutcomes :
        Returned([NoCall EXCEPT !.op = "GetByID", !.typ = root,
                                !.before = MkRec(root, k, <<>>), !.db = db],
                 GetByID(root, MkRec(root, k, <<>>), db, Cur))

\* orm.Get(db, &v, s, args...)
DoOrmGet ==
    \E s \in FetchPreds, db \in DbOutcomes :
        Returned([NoCall EXCEPT !.op = "Get", !.typ = root, !.before = Zero(root),
                                !.db = db, !.s = s, !.args = PredArgs(s)],
                 OrmGet(root, Zero(root), s, PredArgs(s), db, Cur))

\* orm.List(db, &vs, sql, args...) and orm.List(db, vs, sql, args...)
DoOrmList ==
    \E form \in {"slice", "ptrslice"}, s \in FetchPreds, db \in {"ok", "err"} :
       \E n \in IF db = "ok" THEN 0..MaxRows ELSE {0} :
          Returned([NoCall EXCEPT !.op = "List", !.form = form, !.typ = root,
                                  !.before = <<>>, !.db = db, !.s = s, !.n = n,
                                  !.args = PredArgs(s)],
                   OrmList(form, root, <<>>, s, PredArgs(s), db, n, Cur))

\* the cursors the callers hand to CollectRows
Cursors ==
    {[rows |-> n, scanErrAt |-> e, iterErr |-> b] :
        n \in 0..MaxRows, e \in 0..MaxRows, b \in BOOLEAN}

\* orm.CollectRows[T](rows)
DoCollectRows ==
    \E cur \in {c \in Cursors : c.scanErrAt <= c.rows} :
        Returned([NoCall EXCEPT !.op = "CollectRows", !.typ = root, !.cur = cur],
                 CollectRows(root, cur, Cur))

\* the slices of at most MaxMany records of type t
RecLists(t) ==
    UNION {{[j \in 1..n |-> MkRec(t, ks[j], <<>>)] : ks \in [1..n -> Samples]} :
             n \in 0..MaxMany}

\* orm.AddMany(db, v): a slice of records, or one record in another form
DoAddMany ==
    \E form \in Forms, db \in {"ok", "err"} :
       \E recs \in IF form = "slice" THEN RecLists(root)
                    ELSE {<<MkRec(root, 1, <<>>)>>} :
          Returned([NoCall EXCEPT !.op = "AddMany", !.form = form, !.typ = root,
                                  !.before = recs, !.n = Len(recs), !.db = db],
                   AddMany(form, root, recs, db, Cur))

Next ==
    \/ DoSchemaGet
    \/ DoClearCache
    \/ DoFind
    \/ DoValues
    \/ DoAddrs
    \/ DoAdd
    \/ DoUpdate
    \/ DoUpdateByID
    \/ DoOrmGet
    \/ DoOrmList
    \/ DoCollectRows
    \/ DoAddMany
    \/ DoRemoveByID
    \/ DoGetByID

Spec == Init /\ [][Next]_vars
(***************************************************************************)
(* What the properties below are stated against: the descriptor tree read  *)
(* leaf by leaf in depth-first declaration order, every sibling visited,   *)
(* and the SQL text written out from it.  None of this goes through Find,  *)
(* Writeable, Columns, Values, Addrs or the list formatters.               *)
(***************************************************************************)
\* the leaves of a descriptor tree with their index paths from the root
RECURSIVE Leaves(_, _, _)
Leaves(fields, hp, path) ==
    IF fields = <<>> THEN <<>>
    ELSE LET f == Head(fields)
             p == Append(path, f.Index)
         IN (IF HasSchema(f) THEN Leaves(hp[f.Schema].Fields, hp, p)
             ELSE <<[f |-> f, index |-> p]>>)
            \o Leaves(Tail(fields), hp, path)

\* the descriptor the last call worked on, found in the cache it left
LastSch == Get(last.form, last.typ, Cur).sch
LastTable == heap[LastSch].Table
LastLeaves == Leaves(heap[LastSch].Fields, heap, <<>>)
LastPKs == SelectSeq(LastLeaves, LAMBDA x : x.f.PK)
LastWritable == SelectSeq(LastLeaves, LAMBDA x : ~x.f.PK /\ ~x.f.ReadOnly)
LastReadOnly == SelectSeq(LastLeaves, LAMBDA x : x.f.ReadOnly /\ ~x.f.PK)

ColumnsOf(ls) == [i \in 1..Len(ls) |-> ls[i].f.Column]
FieldsOf(ls) == [i \in 1..Len(ls) |-> ls[i].f]

\* the value a statement is given for the field at index of rec
ArgAt(rec, index) ==
    LET v == FieldByIndex(rec, index)
    IN IF v.nil THEN UntypedNil ELSE v
ArgsAt(rec, ls) == [i \in 1..Len(ls) |-> ArgAt(rec, ls[i].index)]

\* "c1, c2, ..."
RECURSIVE ColumnText(_)
ColumnText(cols) ==
    IF cols = <<>> THEN ""
    ELSE Str(Head(cols)) \o (IF Len(cols) > 1 THEN ", " \o ColumnText(Tail(cols)) ELSE "")

\* "$k+1, $k+2, ..." for n placeholders
RECURSIVE PlaceholderText(_, _)
PlaceholderText(n, k) ==
    IF n = 0 THEN ""
    ELSE "$" \o ToString(k + 1)
           \o (IF n > 1 THEN ", " \o PlaceholderText(n - 1, k + 1) ELSE "")

\* "c1 = $k+1, c2 = $k+2, ..."
RECURSIVE SetText(_, _)
SetText(cols, k) ==
    IF cols = <<>> THEN ""
    ELSE Str(Head(cols)) \o " = $" \o ToString(k + 1)
           \o (IF Len(cols) > 1 THEN ", " \o SetText(Tail(cols), k + 1) ELSE "")

InsertText(table, cols) ==
    "INSERT INTO " \o Str(table) \o " (" \o ColumnText(cols) \o ") VALUES ("
      \o PlaceholderText(Len(cols), 0) \o ")"

SelectText(table, cols) == "SELECT " \o ColumnText(cols) \o " FROM " \o Str(table)

\* the caller's text as it follows a generated statement
Suffix(s) == IF s = <<>> THEN "" ELSE " " \o Str(s)

\* the last call ran to its end without error or panic
Succeeded(op) == last.op = op /\ last.err = Nil

(***************************************************************************)
(* C1.  For a record type with a primary-key field anywhere in its         *)
(* descriptor tree, a successful Add issues exactly one single-row query,  *)
(* the INSERT statement followed by "returning <pk column>", issues no     *)
(* Exec, and leaves the value the database returned in the record's        *)
(* primary-key field; for a type without one it issues exactly one Exec.   *)
(***************************************************************************)
C1_AddReturnsIdentity ==
    Succeeded("Add") =>
        LET ins == InsertText(LastTable, ColumnsOf(LastWritable))
        IN IF LastPKs # <<>>
           THEN /\ Len(last.calls) = 1
                /\ last.calls[1].fn = "QueryRow"
                /\ last.calls[1].sql = ins \o " returning " \o Str(LastPKs[1].f.Column)
                /\ FieldByIndex(last.after, LastPKs[1].index).v = last.id
           ELSE /\ Len(last.calls) = 1
                /\ last.calls[1].fn = "Exec"

\* an Add of a record whose key is declared after an embedded struct that
\* holds none went through without error
C1_Witness ==
    /\ Succeeded("Add")
    /\ last.typ = "P"
    /\ LastPKs # <<>>
    /\ last.calls # <<>>

(***************************************************************************)
(* C2.  Find returns the field-not-found error only when no leaf of the    *)
(* descriptor tree satisfies the predicate; otherwise it returns the first *)
(* matching leaf in depth-first declaration order, an embedded struct's    *)
(* subtree being visited where it is reached and the following siblings    *)
(* after it.                                                               *)
(***************************************************************************)
C2_FindFirstLeaf ==
    last.op = "Find" =>
        LET m == SelectSeq(LastLeaves, LAMBDA x : Match(last.pred, x.f))
        IN IF m = <<>>
           THEN last.found.err = ErrFieldNotFound
           ELSE /\ last.found.err = Nil
                /\ last.found.f = m[1].f
                /\ last.found.index = m[1].index

\* a search whose only match is a sibling that follows an embedded struct
C2_Witness ==
    /\ last.op = "Find"
    /\ last.pred = PredPK
    /\ HasSchema(heap[LastSch].Fields[1])
    /\ LastPKs # <<>>
    /\ Len(LastPKs[1].index) = 1

C4_ValuesMatchColumns ==
    Succeeded("Values") =>
        LET cols == Columns(Writeable(heap[LastSch].Fields, heap), heap)
        IN /\ Len(last.values) = Len(cols)
           /\ Len(LastWritable) = Len(cols)
           /\ \A i \in 1..Len(cols) :
                 /\ LastWritable[i].f.Column = cols[i]
                 /\ last.values[i] = ArgAt(last.before, LastWritable[i].index)

\* the values of a record with an embedded struct, one of them a pointer
\* that is not nil
C4_Witness ==
    /\ Succeeded("Values")
    /\ last.typ = "P"
    /\ Len(last.values) = 2
    /\ last.values[2].k = "ptr"

C6_UpdatePlaceholders ==
    Succeeded("Update") =>
        LET k == Len(last.args)
        IN last.calls =
             <<Call("Exec",
                    "UPDATE " \o Str(LastTable) \o " SET "
                      \o SetText(ColumnsOf(LastWritable), k) \o Suffix(last.s),
                    last.args \o ArgsAt(last.before, LastWritable))>>

\* an Update with a predicate and two arguments of its own
C6_Witness ==
    /\ Succeeded("Update")
    /\ last.s = WherePred
    /\ Len(last.args) = 2
    /\ Len(last.calls) = 1
    /\ Len(last.calls[1].args) = 2 + Len(LastWritable)
    /\ Len(LastWritable) >= 2

(***************************************************************************)
(* C7.  UpdateByID on a type with a primary key and writable columns       *)
(* c1..cm issues "update <table> set c1 = $1, ..., cm = $m where <pk       *)
(* column> = $m+1" with m+1 arguments: the writable values in column       *)
(* order, then the current value of the primary-key field, whatever its Go *)
(* type and wherever it is declared.                                       *)
(***************************************************************************)
C7_UpdateByIDStatement ==
    (last.op = "UpdateByID" /\ last.db = "ok" /\ LastPKs # <<>>) =>
        LET m == Len(LastWritable)
        IN /\ last.err = Nil
           /\ Len(last.calls) = 1
           /\ last.calls[1].fn = "Exec"
           /\ last.calls[1].sql =
                 "update " \o Str(LastTable) \o " set "
                   \o SetText(ColumnsOf(LastWritable), 0)
                   \o " where " \o Str(LastPKs[1].f.Column) \o " = $" \o ToString(m + 1)
           /\ Len(last.calls[1].args) = m + 1
           /\ SubSeq(last.calls[1].args, 1, m) = ArgsAt(last.before, LastWritable)
           /\ last.calls[1].args[m + 1].v = FieldByIndex(last.before, LastPKs[1].index).v

\* UpdateByID of a record whose primary key is a string
C7_Witness ==
    /\ last.op = "UpdateByID"
    /\ last.db = "ok"
    /\ last.typ = "S"
    /\ LastPKs # <<>>
    /\ FieldByIndex(last.before, LastPKs[1].index).k = "string"

C9_TableNameOverrides ==
    (/\ last.op = "SchemaGet"
     /\ last.err = Nil
     /\ \/ Types[last.typ].recv = "value"
        \/ Types[last.typ].recv = "ptr" /\ last.form = "ptr") =>
        /\ heap[last.sch].Table = Types[last.typ].tname
        /\ Types[last.typ].tname \in DOMAIN schemaCache
        /\ schemaCache[Types[last.typ].tname] = last.sch

\* Get of a pointer to a slice of a type whose TableName() has a value receiver
C9_Witness ==
    /\ last.op = "SchemaGet"
    /\ last.err = Nil
    /\ last.form = "ptrslice"
    /\ Types[last.typ].recv = "value"

(***************************************************************************)
(* C10.  A field descriptor is primary-key exactly when its column is      *)
(* "id" or the trimmed first segment of its db tag is "pk"; every          *)
(* primary-key field is read-only; a "ro" or "readonly" modifier makes a   *)
(* field read-only without making it primary-key.                          *)
(***************************************************************************)
\* the declared field a leaf descriptor of the descriptor d was built from
DeclOf(d, f) == Types[heap[d].Type].fields[f.Index + 1]
FirstSegment(tag) == Trim(Split(tag, ",")[1])
HasReadOnlyModifier(tag) ==
    \E i \in 2..Len(Split(tag, ",")) :
        Trim(Split(tag, ",")[i]) \in {<<"r","o">>, <<"r","e","a","d","o","n","l","y">>}

C10_KeyClassification ==
    \A d \in DOMAIN heap :
       \A i \in 1..Len(heap[d].Fields) :
          LET f == heap[d].Fields[i]
              decl == DeclOf(d, f)
              isKey == \/ f.Column = <<"i","d">>
                       \/ decl.tag # <<>> /\ FirstSegment(decl.tag) = <<"p","k">>
          IN ~HasSchema(f) =>
                /\ f.Column = (IF decl.tag = <<>> THEN snakecase(decl.name)
                               ELSE FirstSegment(decl.tag))
                /\ f.PK <=> isKey
                /\ f.PK => f.ReadOnly
                /\ (decl.tag # <<>> /\ HasReadOnlyModifier(decl.tag) /\ ~isKey) =>
                      f.ReadOnly /\ ~f.PK

\* a descriptor with a field whose tag has spaces around its first segment
C10_Witness ==
    \E d \in DOMAIN heap :
       \E i \in 1..Len(heap[d].Fields) :
          /\ ~HasSchema(heap[d].Fields[i])
          /\ DeclOf(d, heap[d].Fields[i]).tag = <<" ","p","k">>
(***************************************************************************)
(* C11.  A field whose db tag lists pk as a modifier after the column name *)
(* (db:"code,pk") is classified as the primary key: FindPK returns it and  *)
(* it is not in the writable set.                                          *)
(***************************************************************************)
HasPKModifier(tag) ==
    \E i \in 2..Len(Split(tag, ",")) : Trim(Split(tag, ",")[i]) = <<"p","k">>

C11_PKModifier ==
    \A d \in DOMAIN heap :
       \A i \in 1..Len(heap[d].Fields) :
          LET f == heap[d].Fields[i]
              w == Writeable(heap[d].Fields, heap)
          IN (~HasSchema(f) /\ HasPKModifier(DeclOf(d, f).tag)) =>
                /\ f.PK
                /\ FindPK(heap[d].Fields, heap).err = Nil
                /\ FindPK(heap[d].Fields, heap).f = f
                /\ \A j \in 1..Len(w) : w[j] # f

\* a descriptor with a field tagged "code,pk"
C11_Witness ==
    \E d \in DOMAIN heap :
       \E i \in 1..Len(heap[d].Fields) :
          /\ ~HasSchema(heap[d].Fields[i])
          /\ HasPKModifier(DeclOf(d, heap[d].Fields[i]).tag)
          /\ heap[d].Fields[i].Column = <<"c","o","d","e">>

(***************************************************************************)
(* snakecase on its own: the identifiers are all the words of at most      *)
(* MaxIdent letters over two capitals and a small letter, and the          *)
(* identifiers the tests and the documentation name.                       *)
(***************************************************************************)
IdentLetters == {"X", "Y", "a"}
NamedIdents ==
    <<[in |-> <<"I","D">>,
       out |-> <<"i","d">>],
      [in |-> <<"U","s","e","r","I","D">>,
       out |-> <<"u","s","e","r","_","i","d">>],
      [in |-> <<"V","e","r","i","f","y","S","S","L","E","x","p","i","r","y">>,
       out |-> <<"v","e","r","i","f","y","_","s","s","l","_","e","x","p","i","r","y">>],
      [in |-> <<"c","a","m","e","l","C","a","s","e","A","B","C","d","e","f">>,
       out |-> <<"c","a","m","e","l","_","c","a","s","e","_","a","b","_","c","d","e","f">>],
      [in |-> <<"C","r","e","a","t","e","d","A","t">>,
       out |-> <<"c","r","e","a","t","e","d","_","a","t">>]>>
Idents ==
    UNION {[1..n -> IdentLetters] : n \in 0..MaxIdent}
      \cup {NamedIdents[i].in : i \in DOMAIN NamedIdents}

SnakeInit ==
    /\ schemaCache = <<>>
    /\ heap = <<>>
    /\ root = "C"
    /\ last = NoCall
    /\ procs = <<>>
    /\ migrations = NoMigrations

\* snakecase(input)
DoSnakecase ==
    /\ \E input \in Idents :
          last' = [NoCall EXCEPT !.op = "snakecase", !.s = input,
                                 !.values = snakecase(input)]
    /\ UNCHANGED <<schemaCache, heap, root, procs, migrations>>

SnakeNext == DoSnakecase

SnakeSpec == SnakeInit /\ [][SnakeNext]_vars

(***************************************************************************)
(* C12.  snakecase lower-cases an identifier of ASCII letters and writes   *)
(* an underscore before a capital exactly when it is not the first letter  *)
(* and either the letter before it is not a capital or the letter after it *)
(* is a small one; ID -> id, UserID -> user_id, VerifySSLExpiry ->         *)
(* verify_ssl_expiry, camelCaseABCdef -> camel_case_ab_cdef, CreatedAt ->  *)
(* created_at; the output never starts with an underscore and never has    *)
(* two underscores in a row.                                               *)
(***************************************************************************)
UnderscoreBefore(input, i) ==
    /\ IsUpper(input[i])
    /\ i > 1
    /\ \/ ~IsUpper(input[i - 1])
       \/ i < Len(input) /\ IsLower(input[i + 1])

\* the rule applied from letter i on
RECURSIVE SnakeRule(_, _)
SnakeRule(input, i) ==
    IF i > Len(input) THEN <<>>
    ELSE (IF UnderscoreBefore(input, i) THEN <<"_">> ELSE <<>>)
           \o <<ToLower(input[i])>> \o SnakeRule(input, i + 1)

C12_Snakecase ==
    last.op = "snakecase" =>
        /\ last.values = SnakeRule(last.s, 1)
        /\ last.values # <<>> => last.values[1] # "_"
        /\ \A i \in 1..(Len(last.values) - 1) :
              ~(last.values[i] = "_" /\ last.values[i + 1] = "_")
        /\ \A i \in DOMAIN NamedIdents :
              last.s = NamedIdents[i].in => last.values = NamedIdents[i].out

\* snakecase was applied to an identifier with an acronym in the middle
C12_Witness ==
    /\ last.op = "snakecase"
    /\ last.s = NamedIdents[3].in
    /\ last.values = NamedIdents[3].out

(***************************************************************************)
(* C13.  The index path FindPK / FindByColumn return has one element per   *)
(* nesting level, each the declared slot index of the field at that level, *)
(* so that following it from the root record addresses exactly the         *)
(* returned field ([0,0,1] for the second field of A, A the first field of *)
(* B, B the first field of C).                                             *)
(***************************************************************************)
\* the descriptors met when index is followed from fields: one per level,
\* or none when some element is no slot of its level
RECURSIVE FollowPath(_, _, _)
FollowPath(fields, hp, index) ==
    IF index = <<>> THEN <<>>
    ELSE LET at == {i \in 1..Len(fields) : fields[i].Index = Head(index)}
         IN IF at = {} THEN <<>>
            ELSE LET f == fields[CHOOSE i \in at : TRUE]
                 IN IF Len(index) = 1 THEN <<f>>
                    ELSE IF ~HasSchema(f) THEN <<>>
                    ELSE LET rest == FollowPath(hp[f.Schema].Fields, hp, Tail(index))
                         IN IF rest = <<>> THEN <<>> ELSE <<f>> \o rest

RECURSIVE DeclLeaves(_)
DeclLeaves(t) ==
    LET RECURSIVE From(_)
        From(i) ==
            IF i > Len(Types[t].fields) THEN <<>>
            ELSE (IF Types[t].fields[i].kind = "struct"
                  THEN DeclLeaves(Types[t].fields[i].etyp)
                  ELSE <<Types[t].fields[i]>>) \o From(i + 1)
    IN From(1)

IsExcluded(decl) == decl.tag = <<"-">>

C15_NilValues ==
    Succeeded("Values") =>
        /\ Len(last.values) = Len(LastWritable)
        /\ \A i \in 1..Len(LastWritable) :
              LET v == FieldByIndex(last.before, LastWritable[i].index)
              IN v.k \in NilableKinds =>
                    IF v.nil
                    THEN last.values[i].k = "nil" /\ last.values[i] = UntypedNil
                    ELSE last.values[i].k = v.k /\ last.values[i] = v

\* the values of a record whose slice and map are nil
C15_Witness ==
    /\ Succeeded("Values")
    /\ last.typ = "K"
    /\ \E i \in 1..Len(last.before) :
          last.before[i].k = "slice" /\ last.before[i].nil
    /\ \E i \in 1..Len(last.values) : last.values[i] = UntypedNil

(***************************************************************************)
(* C16.  CollectRows returns the not-found error when it has accumulated   *)
(* no row; on a scan error or a cursor (iteration) error it returns that   *)
(* error at once with a nil result, never a partial list; the cursor is    *)
(* closed on every return path.                                            *)
(***************************************************************************)
C16_CollectRows ==
    last.op = "CollectRows" =>
        LET cur == last.cur
        IN /\ last.calls # <<>>
           /\ last.calls[Len(last.calls)] = "Close"
           /\ \A i \in 1..(Len(last.calls) - 1) : last.calls[i] # "Close"
           /\ IF cur.scanErrAt > 0
              THEN last.err = DbErr /\ last.after = <<>>
              ELSE IF cur.iterErr
              THEN last.err = IterErr /\ last.after = <<>>
              ELSE IF cur.rows = 0
              THEN last.err = ErrNotFound /\ last.after = <<>>
              ELSE last.err = Nil /\ Len(last.after) = cur.rows

\* a cursor that failed after it had yielded a row
C16_Witness ==
    /\ last.op = "CollectRows"
    /\ last.cur.rows >= 1
    /\ last.cur.scanErrAt = 0
    /\ last.cur.iterErr
    /\ last.calls[Len(last.calls)] = "Close"

(***************************************************************************)
(* C17.  Introspection of a struct T, a pointer *T, a slice []T or a       *)
(* pointer to slice *[]T succeeds and gives a descriptor of type T with    *)
(* the table name and the column list that the struct T gives; for an int  *)
(* or a []int it gives no descriptor and an error that wraps               *)
(* ErrInvalidType.                                                         *)
(***************************************************************************)
\* errors.Is(err, target), for the errors of this package
Is(err, target) == err = target \/ err = Wrap(target, "int")

\* what introspection of the struct T itself gives, on an empty cache
OfStruct(t) == Get("struct", t, [cache |-> <<>>, heap |-> <<>>])
TableOfStruct(r) == r.st.heap[r.sch].Table
ColumnsOfStruct(r) == ColumnsOf(Leaves(r.st.heap[r.sch].Fields, r.st.heap, <<>>))

C17_InferForms ==
    last.op = "SchemaGet" =>
        IF last.form \in ScalarForms
        THEN last.sch = NoSchema /\ Is(last.err, ErrInvalidType)
        ELSE /\ last.err = Nil
             /\ last.sch \in DOMAIN heap
             /\ heap[last.sch].Type = last.typ
             /\ heap[last.sch].Table = TableOfStruct(OfStruct(last.typ))
             /\ ColumnsOf(Leaves(heap[last.sch].Fields, heap, <<>>))
                  = ColumnsOfStruct(OfStruct(last.typ))

\* a slice of a type that embeds a struct, given before the type is cached
C17_Witness ==
    /\ last.op = "SchemaGet"
    /\ last.form = "slice"
    /\ Types[last.typ].fields # <<>>
    /\ \E i \in 1..Len(Types[last.typ].fields) : Types[last.typ].fields[i].kind = "struct"
    /\ last.err = Panic

\* a []int given to introspection
C17_WitnessScalar ==
    /\ last.op = "SchemaGet"
    /\ last.form = "scalarslice"
    /\ Is(last.err, ErrInvalidType)
    /\ last.err # ErrInvalidType

(***************************************************************************)
(* C18.  AddMany over a slice of n records of a type with k writable       *)
(* columns issues exactly one Exec, whose statement is the INSERT with n   *)
(* groups of placeholders, the j-th numbered (j-1)k+1 .. jk, and whose     *)
(* n*k arguments are the writable values of the records in order; given    *)
(* anything but a slice it returns ErrInvalidType and calls nothing.       *)
(***************************************************************************)
\* "($1, .., $k), ($k+1, .., $2k), ..." for groups j..n
RECURSIVE GroupsText(_, _, _)
GroupsText(j, n, k) ==
    IF j > n THEN ""
    ELSE "(" \o PlaceholderText(k, (j - 1) * k) \o ")"
           \o (IF j < n THEN ", " \o GroupsText(j + 1, n, k) ELSE "")

\* the one statement of the last AddMany is the one stated
AddManyStatement ==
    LET k == Len(LastWritable)
        n == Len(last.before)
        args == last.calls[1].args
    IN /\ Len(last.calls) = 1
       /\ last.calls[1].fn = "Exec"
       /\ last.calls[1].sql =
             "INSERT INTO " \o Str(LastTable) \o " ("
               \o ColumnText(ColumnsOf(LastWritable)) \o ") VALUES "
               \o GroupsText(1, n, k)
       /\ Len(args) = n * k
       /\ \A j \in 1..n : \A i \in 1..k :
             args[(j - 1) * k + i] = ArgAt(last.before[j], LastWritable[i].index)

C18_AddManyIntrospected ==
    (last.op = "AddMany" /\ last.err # Panic) =>
        IF last.form # "slice"
        THEN last.err = ErrInvalidType /\ last.calls = <<>>
        ELSE AddManyStatement

C18_WitnessPanic ==
    /\ last.op = "AddMany"
    /\ last.form = "slice"
    /\ last.err = Panic
    /\ last.calls = <<>>

(***************************************************************************)
(* C19.  The statement that Get or List issues is "SELECT <all columns in  *)
(* Columns() order> FROM <table>", followed by one space and the caller's  *)
(* text when that text is not empty and by nothing when it is, and the     *)
(* caller's arguments go to the executor unchanged and in order.           *)
(* As stated (C19_SelectFormat) this fails for List, which strips the      *)
(* spaces at the end of the whole statement and with them those at the end *)
(* of the caller's text; C19_SelectFormatTrimmed states what List sends.   *)
(***************************************************************************)
\* the one call of the last fetch carries the columns, the table and the
\* arguments, and after them the text s
FetchStatement(s) ==
    /\ Len(last.calls) = 1
    /\ last.calls[1].fn = (IF last.op = "Get" THEN "QueryRow" ELSE "Query")
    /\ last.calls[1].sql = SelectText(LastTable, ColumnsOf(LastLeaves)) \o Suffix(s)
    /\ last.calls[1].args = last.args

C19_WitnessEmpty ==
    /\ last.op \in {"Get", "List"}
    /\ last.s = NoPred
    /\ Len(last.calls) = 1
    /\ last.calls[1].sql = SelectText(LastTable, ColumnsOf(LastLeaves))

(***************************************************************************)
(* Concurrent callers of schema.Get.  Each goroutine makes one call of     *)
(* Get for the type root, which no one has introspected before.  A         *)
(* goroutine is [stack, ret, done]: the frames of its calls of Get, the    *)
(* innermost last, and what its call returned.  A frame is                 *)
(* [typ, form, pc, table, sch, i, got]: the argument, where the call       *)
(* stands, its local table and sch, the number of the field its loop is    *)
(* at, and the descriptor the Get of an embedded field returned.  One step *)
(* is one access to the shared memory: a lookup or a save under the mutex, *)
(* or one write to a descriptor.  The descriptor a goroutine g allocates   *)
(* for table and typ is the pointer <<table, typ, g>>.                     *)
(***************************************************************************)
Goroutines == {1, 2}
ConcRoots == {"C", "P", "T"}

NewFrame(t, form) ==
    [typ |-> t, form |-> form, pc |-> "record", table |-> <<>>,
     sch |-> NoSchema, i |-> 0, got |-> NoSchema]

Top(g) == procs[g].stack[Len(procs[g].stack)]
At(g, pc) == procs[g].stack # <<>> /\ Top(g).pc = pc
SetTop(g, f) == [procs EXCEPT ![g].stack[Len(procs[g].stack)] = f]

\* return sch: the frame is left, and the caller goes on with what it got
Return(g, sch) ==
    IF Len(procs[g].stack) = 1
    THEN [procs EXCEPT ![g] = [stack |-> <<>>, ret |-> sch, done |-> TRUE]]
    ELSE [procs EXCEPT ![g].stack =
            Append(SubSeq(@, 1, Len(@) - 2),
                   [@[Len(@) - 1] EXCEPT !.got = sch, !.pc = "parent"])]

ConcInit ==
    /\ schemaCache = <<>>
    /\ heap = <<>>
    /\ root \in ConcRoots
    /\ last = NoCall
    /\ procs = [g \in Goroutines |-> [stack |-> <<>>, ret |-> NoSchema, done |-> FALSE]]
    /\ migrations = NoMigrations

\* a caller calls schema.Get(v) or schema.Get(&v)
ConcCall(g) ==
    /\ procs[g].stack = <<>>
    /\ ~procs[g].done
    /\ \E form \in {"struct", "ptr"} :
          procs' = [procs EXCEPT ![g].stack = <<NewFrame(root, form)>>]
    /\ UNCHANGED <<schemaCache, heap, root, last, migrations>>

\* v.(Record), and the lookup of its table when it is one
ConcRecord(g) ==
    /\ At(g, "record")
    /\ IF IsRecord(Top(g).form, Top(g).typ)
       THEN IF lookup(Cur, Types[Top(g).typ].tname) # NoSchema
            THEN procs' = Return(g, lookup(Cur, Types[Top(g).typ].tname))
            ELSE procs' = SetTop(g, [Top(g) EXCEPT !.pc = "lookup",
                                        !.table = Types[Top(g).typ].tname])
       ELSE procs' = SetTop(g, [Top(g) EXCEPT !.pc = "lookup",
                                   !.table = snakecase(Types[Top(g).typ].name)])
    /\ UNCHANGED <<schemaCache, heap, root, last, migrations>>

\* if lookup(table) != nil; when it is nil, sch = new(Schema)
ConcLookup(g) ==
    /\ At(g, "lookup")
    /\ IF lookup(Cur, Top(g).table) # NoSchema
       THEN /\ procs' = SetTop(g, [Top(g) EXCEPT !.pc = "hit"])
            /\ heap' = heap
       ELSE /\ procs' = SetTop(g, [Top(g) EXCEPT !.pc = "field", !.i = 1,
                                      !.sch = <<Top(g).table, Top(g).typ, g>>])
            /\ heap' = (<<Top(g).table, Top(g).typ, g>> :>
                          [Parent |-> NoSchema, Table |-> Top(g).table,
                           Type |-> Top(g).typ, Fields |-> <<>>]) @@ heap
    /\ UNCHANGED <<schemaCache, root, last, migrations>>

\* return lookup(table), nil: the second lookup
ConcHit(g) ==
    /\ At(g, "hit")
    /\ procs' = Return(g, lookup(Cur, Top(g).table))
    /\ UNCHANGED <<schemaCache, heap, root, last, migrations>>

\* the loop is at an exported embedded field: Get(val.Field(i).Interface())
ConcEmbed(g) ==
    /\ At(g, "field")
    /\ Top(g).i <= Len(Types[Top(g).typ].fields)
    /\ Types[Top(g).typ].fields[Top(g).i].anon
    /\ Types[Top(g).typ].fields[Top(g).i].exported
    /\ procs' = [procs EXCEPT ![g].stack =
                   Append(SubSeq(@, 1, Len(@) - 1), [Top(g) EXCEPT !.pc = "embedded"])
                     \o <<NewFrame(Types[Top(g).typ].fields[Top(g).i].etyp, "struct")>>]
    /\ UNCHANGED <<schemaCache, heap, root, last, migrations>>

\* embeded.Parent = sch
ConcParent(g) ==
    /\ At(g, "parent")
    /\ heap' = [heap EXCEPT ![Top(g).got].Parent = Top(g).sch]
    /\ procs' = SetTop(g, [Top(g) EXCEPT !.pc = "append"])
    /\ UNCHANGED <<schemaCache, root, last, migrations>>

\* sch.Fields = append(sch.Fields, Field{Name, Index, Schema: embeded})
ConcAppend(g) ==
    /\ At(g, "append")
    /\ heap' = [heap EXCEPT ![Top(g).sch].Fields =
                  Append(@, [Name |-> Types[Top(g).typ].fields[Top(g).i].name,
                             Column |-> <<>>, Index |-> Top(g).i - 1,
                             PK |-> FALSE, ReadOnly |-> FALSE,
                             FK |-> NoFK, Schema |-> Top(g).got])]
    /\ procs' = SetTop(g, [Top(g) EXCEPT !.pc = "field", !.i = @ + 1])
    /\ UNCHANGED <<schemaCache, root, last, migrations>>

\* the loop is at a field that is not embedded: it is skipped or appended
ConcLeaf(g) ==
    /\ At(g, "field")
    /\ Top(g).i <= Len(Types[Top(g).typ].fields)
    /\ ~(Types[Top(g).typ].fields[Top(g).i].anon
           /\ Types[Top(g).typ].fields[Top(g).i].exported)
    /\ heap' = IF Types[Top(g).typ].fields[Top(g).i].tag = <<"-">> THEN heap
               ELSE [heap EXCEPT ![Top(g).sch].Fields =
                       Append(@, leafField(Types[Top(g).typ].fields[Top(g).i],
                                           Top(g).i - 1))]
    /\ procs' = SetTop(g, [Top(g) EXCEPT !.i = @ + 1])
    /\ UNCHANGED <<schemaCache, root, last, migrations>>

\* save(table, sch); return
ConcSave(g) ==
    /\ At(g, "field")
    /\ Top(g).i > Len(Types[Top(g).typ].fields)
    /\ schemaCache' = save(Cur, Top(g).table, Top(g).sch, heap[Top(g).sch]).cache
    /\ procs' = Return(g, Top(g).sch)
    /\ UNCHANGED <<heap, root, last, migrations>>

ConcNext ==
    \E g \in Goroutines :
        \/ ConcCall(g)
        \/ ConcRecord(g)
        \/ ConcLookup(g)
        \/ ConcHit(g)
        \/ ConcEmbed(g)
        \/ ConcParent(g)
        \/ ConcAppend(g)
        \/ ConcLeaf(g)
        \/ ConcSave(g)

ConcSpec == ConcInit /\ [][ConcNext]_vars

(***************************************************************************)
(* C20.  Whatever the interleaving of the concurrent first calls of Get    *)
(* for a type, every descriptor that a call has returned, and the one a    *)
(* lookup of the type's table finds, is complete: followed through its     *)
(* fields, its embedded descriptors and their Parent links, it is the      *)
(* descriptor that a single Get of the type produces on an empty cache.    *)
(***************************************************************************)
\* how far a descriptor is followed
ShapeDepth == 4

\* a descriptor followed through Fields, Schema and Parent, d pointers
\* deep, without the pointers themselves
RECURSIVE Shape(_, _, _)
Shape(id, hp, d) ==
    IF id = NoSchema THEN <<>>
    ELSE IF d = 0 THEN <<"...">>
    ELSE <<hp[id].Table, hp[id].Type,
           [i \in 1..Len(hp[id].Fields) |->
               [hp[id].Fields[i] EXCEPT !.Schema = Shape(@, hp, d - 1)]],
           Shape(hp[id].Parent, hp, d - 1)>>

\* the descriptor of a single Get, alone
ShapeOf(r) == Shape(r.sch, r.st.heap, ShapeDepth)
Sequential(t) == ShapeOf(Get("ptr", t, [cache |-> <<>>, heap |-> <<>>]))

\* the table a Get of the type looks up
TableOf(t) == IF Types[t].recv = "value" THEN Types[t].tname
              ELSE snakecase(Types[t].name)

C20_ConcurrentGet ==
    /\ \A g \in DOMAIN procs :
          procs[g].done => Shape(procs[g].ret, heap, ShapeDepth) = Sequential(root)
    /\ (procs # <<>> /\ TableOf(root) \in DOMAIN schemaCache) =>
          Shape(schemaCache[TableOf(root)], heap, ShapeDepth) = Sequential(root)

\* the same once every call has returned
C20_Quiescent ==
    (procs # <<>> /\ \A g \in DOMAIN procs : procs[g].done) =>
        /\ \A g \in DOMAIN procs :
              Shape(procs[g].ret, heap, ShapeDepth) = Sequential(root)
        /\ TableOf(root) \in DOMAIN schemaCache
        /\ Shape(schemaCache[TableOf(root)], heap, ShapeDepth) = Sequential(root)
        /\ \E g \in DOMAIN procs : schemaCache[TableOf(root)] = procs[g].ret

\* a call has returned a descriptor whose embedded descriptor has for
\* Parent the descriptor another goroutine is still filling
C20_Witness ==
    \E g \in DOMAIN procs, h \in DOMAIN procs :
       /\ g # h
       /\ procs[g].done
       /\ ~procs[h].done
       /\ heap[procs[g].ret].Fields # <<>>
       /\ HasSchema(heap[procs[g].ret].Fields[1])
       /\ heap[heap[procs[g].ret].Fields[1].Schema].Parent = <<TableOf(root), root, h>>
       /\ Len(heap[<<TableOf(root), root, h>>].Fields) < Len(heap[procs[g].ret].Fields)

(***************************************************************************)
(* C21.  A successful introspection of a value gives the table name, the   *)
(* column ordering and the primary-key index path that introspection of    *)
(* the same value gives on a fresh cache, whatever was introspected        *)
(* before it.                                                              *)
(***************************************************************************)
EmptyCache == [cache |-> <<>>, heap |-> <<>>]

\* table, columns and primary-key path of the descriptor id in the heap hp
Mapping(id, hp) ==
    <<hp[id].Table,
      ColumnsOf(Leaves(hp[id].Fields, hp, <<>>)),
      FindPK(hp[id].Fields, hp).index,
      FindPK(hp[id].Fields, hp).err>>

\* the last introspection agrees with the fresh one r
SameAsFresh(r) ==
    /\ r.err = Nil
    /\ r.sch # NoSchema
    /\ Mapping(last.sch, heap) = Mapping(r.sch, r.st.heap)

C21_Idempotent ==
    (last.op = "SchemaGet" /\ last.err = Nil) =>
        SameAsFresh(Get(last.form, last.typ, EmptyCache))

\* the same for the values whose introspection on a fresh cache returns
C21_IdempotentIntrospected ==
    (last.op = "SchemaGet" /\ last.err = Nil
       /\ Get(last.form, last.typ, EmptyCache).err = Nil) =>
        SameAsFresh(Get(last.form, last.typ, EmptyCache))

\* a slice of an embedding type introspected from the cache, which on a
\* fresh cache panics
C21_Witness ==
    /\ last.op = "SchemaGet"
    /\ last.err = Nil
    /\ last.hit
    /\ last.form = "slice"
    /\ Get(last.form, last.typ, EmptyCache).err = Panic

\* a cache hit for a type with a primary key below the top level
C21_WitnessHit ==
    /\ last.op = "SchemaGet"
    /\ last.err = Nil
    /\ last.hit
    /\ last.typ = "C"
    /\ Len(FindPK(heap[last.sch].Fields, heap).index) = 3

(***************************************************************************)
(* Migrations (src/migration.go).  The table records the names of the      *)
(* migrations, name being UNIQUE.  A call of AddMigration is given the     *)
(* migration and the number of the statement at which the database fails   *)
(* (0: at none): 1 the SELECT, 2 Begin, 3 the INSERT, 4 the up SQL, 5 the  *)
(* UPDATE, 6 Commit.  Statements inside a transaction take effect at       *)
(* Commit.                                                                 *)
(***************************************************************************)
Migrations ==
    {[Name |-> n, Up |-> u, Down |-> d] :
        n \in {"", "m1", "m2", "m3"},
        u \in {"", "create table t ()", "{{"},
        d \in {"", "{{"}}

\* parseMigrationTmpl: text/template fails on an unclosed action
parseMigrationTmpl(sql) ==
    IF sql = "{{" THEN "error parsing migration sql" ELSE Nil

MigResult(tbl, calls, err) == [tbl |-> tbl, calls |-> calls, err |-> err]

\* the transaction of AddMigration, from the INSERT on
addMigrationTx(m, failAt, tbl, calls) ==
    IF failAt = 3 THEN MigResult(tbl, calls \o <<"insert", "rollback">>, DbErr)
    ELSE IF m.Name \in tbl.names
    THEN MigResult(tbl, calls \o <<"insert", "rollback">>, "unique constraint violated")
    ELSE IF failAt = 4
    THEN MigResult(tbl, calls \o <<"insert", "up", "rollback">>, DbErr)
    ELSE IF failAt = 5
    THEN MigResult(tbl, calls \o <<"insert", "up", "update", "rollback">>, DbErr)
    ELSE IF failAt = 6
    THEN MigResult(tbl, calls \o <<"insert", "up", "update", "commit", "rollback">>,
                   DbErr)
    ELSE MigResult([names |-> tbl.names \cup {m.Name},
                    applied |-> (m.Name :> (IF m.Name \in DOMAIN tbl.applied
                                            THEN tbl.applied[m.Name] + 1 ELSE 1))
                                  @@ tbl.applied],
                   calls \o <<"insert", "up", "update", "commit", "rollback">>, Nil)

\* AddMigration after row.Scan(&name) left name
addMigrationScanned(m, failAt, tbl, name) ==
    IF name = m.Name THEN MigResult(tbl, <<"select">>, Nil)
    ELSE IF parseMigrationTmpl(m.Up) # Nil
    THEN MigResult(tbl, <<"select">>, parseMigrationTmpl(m.Up))
    ELSE IF parseMigrationTmpl(m.Down) # Nil
    THEN MigResult(tbl, <<"select">>, parseMigrationTmpl(m.Down))
    ELSE IF failAt = 2 THEN MigResult(tbl, <<"select", "begin">>, DbErr)
    ELSE addMigrationTx(m, failAt, tbl, <<"select", "begin">>)

\* AddMigration(db, migration); the error of row.Scan is not looked at, and
\* name stays empty when the SELECT fails or finds no row
AddMigration(m, failAt, tbl) ==
    IF m.Name = "" THEN MigResult(tbl, <<>>, "migration name is required")
    ELSE IF m.Up = "" THEN MigResult(tbl, <<>>, "up sql is required")
    ELSE addMigrationScanned(m, failAt, tbl,
            IF failAt # 1 /\ m.Name \in tbl.names THEN m.Name ELSE "")

MigInit ==
    /\ schemaCache = <<>>
    /\ heap = <<>>
    /\ root = "C"
    /\ procs = <<>>
    /\ migrations = NoMigrations
    /\ last = [op |-> "none", m |-> [Name |-> "", Up |-> "", Down |-> ""],
               failAt |-> 0, before |-> NoMigrations, calls |-> <<>>, err |-> Nil]

\* orm.AddMigration(db, &m)
DoAddMigration ==
    /\ \E m \in Migrations, failAt \in 0..6 :
          /\ migrations' = AddMigration(m, failAt, migrations).tbl
          /\ last' = [op |-> "AddMigration", m |-> m, failAt |-> failAt,
                      before |-> migrations,
                      calls |-> AddMigration(m, failAt, migrations).calls,
                      err |-> AddMigration(m, failAt, migrations).err]
    /\ UNCHANGED <<schemaCache, heap, root, procs>>

MigNext == DoAddMigration

MigSpec == MigInit /\ [][MigNext]_vars

(***************************************************************************)
(* C22.  AddMigration, given a migration it accepts (a name and an up SQL) *)
(* whose name the migration table already records, returns nil, executes   *)
(* neither the INSERT nor the up SQL and leaves the table as it was; and   *)
(* the up SQL of a name is never applied more than once.                   *)
(***************************************************************************)
Issued(stmt) == \E i \in 1..Len(last.calls) : last.calls[i] = stmt

C22_AddMigrationRepeat ==
    /\ (last.op = "AddMigration" /\ last.m.Name # "" /\ last.m.Up # ""
          /\ last.m.Name \in last.before.names) =>
          /\ last.err = Nil
          /\ ~Issued("insert")
          /\ ~Issued("up")
          /\ migrations = last.before
    /\ \A n \in DOMAIN migrations.applied : migrations.applied[n] = 1

\* the same for the repeats whose SELECT reaches the table
C22_AddMigrationRepeatFound ==
    /\ (last.op = "AddMigration" /\ last.m.Name # "" /\ last.m.Up # ""
          /\ last.m.Name \in last.before.names /\ last.failAt # 1) =>
          /\ last.err = Nil
          /\ ~Issued("insert")
          /\ ~Issued("up")
          /\ migrations = last.before
    /\ \A n \in DOMAIN migrations.applied : migrations.applied[n] = 1

\* a repeat whose SELECT failed
C22_Witness ==
    /\ last.op = "AddMigration"
    /\ last.m.Name \in last.before.names
    /\ last.failAt = 1
    /\ Issued("insert")
    /\ last.err = "unique constraint violated"

\* a repeat that returned nil
C22_WitnessRepeat ==
    /\ last.op = "AddMigration"
    /\ last.m.Name \in last.before.names
    /\ last.failAt = 0
    /\ last.err = Nil
    /\ last.calls = <<"select">>

(***************************************************************************)
(* C23.  UpdateByID, RemoveByID and GetByID, applied to a type whose       *)
(* descriptor tree has no primary-key field, return the field-not-found    *)
(* error and call the executor zero times; applied to a type that has one, *)
(* they issue exactly one statement, whose predicate is                    *)
(* "<pk column> = $n" and whose n-th argument is the record's primary-key  *)
(* value.                                                                  *)
(***************************************************************************)
ByIdentityOps == {"UpdateByID", "RemoveByID", "GetByID"}

\* the one statement of the last by-identity call, for the key leaf pk
ByIdentityStatement(pk) ==
    /\ Len(last.calls) = 1
    /\ last.calls[1].args # <<>>
    /\ last.calls[1].args[Len(last.calls[1].args)].v = FieldByIndex(last.before, pk.index).v
    /\ CASE last.op = "UpdateByID" ->
              /\ last.calls[1].fn = "Exec"
              /\ Len(last.calls[1].args) = Len(LastWritable) + 1
              /\ last.calls[1].sql =
                    "update " \o Str(LastTable) \o " set "
                      \o SetText(ColumnsOf(LastWritable), 0)
                      \o " where " \o Str(pk.f.Column) \o " = $"
                      \o ToString(Len(LastWritable) + 1)
         [] last.op = "RemoveByID" ->
              /\ last.calls[1].fn = "Exec"
              /\ Len(last.calls[1].args) = 1
              /\ last.calls[1].sql =
                    "DELETE FROM " \o Str(LastTable) \o " WHERE "
                      \o Str(pk.f.Column) \o " = $1"
         [] OTHER ->
              /\ last.calls[1].fn = "QueryRow"
              /\ Len(last.calls[1].args) = 1
              /\ last.calls[1].sql =
                    SelectText(LastTable, ColumnsOf(LastLeaves))
                      \o " WHERE " \o Str(pk.f.Column) \o " = $1"

C23_ByIdentity ==
    last.op \in ByIdentityOps =>
        IF LastPKs = <<>>
        THEN last.err = ErrFieldNotFound /\ last.calls = <<>>
        ELSE ByIdentityStatement(LastPKs[1])

\* the same for the types whose key FindPK finds, with an integer key
C23_ByIdentityKeyFound ==
    (last.op \in ByIdentityOps
       /\ (LastPKs # <<>> => /\ FindPK(heap[LastSch].Fields, heap).err = Nil
                             /\ FieldByIndex(last.before, LastPKs[1].index).k = "int")) =>
        IF LastPKs = <<>>
        THEN last.err = ErrFieldNotFound /\ last.calls = <<>>
        ELSE ByIdentityStatement(LastPKs[1])

\* RemoveByID of a record whose key is declared after an embedded struct
\* without one
C23_Witness ==
    /\ last.op = "RemoveByID"
    /\ LastPKs # <<>>
    /\ last.err = ErrFieldNotFound
    /\ last.calls = <<>>

\* GetByID of a record with its key in an embedded struct
C23_WitnessKey ==
    /\ last.op = "GetByID"
    /\ LastPKs # <<>>
    /\ Len(LastPKs[1].index) > 1
    /\ Len(last.calls) = 1

\* a by-identity call on a type without a key
C23_WitnessNoKey ==
    /\ last.op \in ByIdentityOps
    /\ LastPKs = <<>>
    /\ last.err = ErrFieldNotFound

(***************************************************************************)
(* C24.  A descriptor that is in the cache is not changed by any step that *)
(* leaves it in the cache: its Parent, Table, Type and Fields stay as they *)
(* were stored.                                                            *)
(***************************************************************************)
\* the descriptor cached under table k is, after the step, what it was
Unchanged(k) ==
    (k \in DOMAIN schemaCache' /\ schemaCache'[k] = schemaCache[k]) =>
        heap'[schemaCache[k]] = heap[schemaCache[k]]

C24_CachedImmutable == [][\A k \in DOMAIN schemaCache : Unchanged(k)]_vars

\* the same for Table, Type and Fields alone
C24_CachedFieldsImmutable ==
    [][\A k \in DOMAIN schemaCache :
          (k \in DOMAIN schemaCache' /\ schemaCache'[k] = schemaCache[k]) =>
             [heap'[schemaCache[k]] EXCEPT !.Parent = NoSchema]
               = [heap[schemaCache[k]] EXCEPT !.Parent = NoSchema]]_vars

\* a Get of a type for itself that is served the cached descriptor with the
\* Parent an embedding type has written into it
C24_Witness ==
    /\ last.op = "SchemaGet"
    /\ last.form = "struct"
    /\ last.hit
    /\ last.err = Nil
    /\ last.sch \in DOMAIN heap
    /\ heap[last.sch].Parent # NoSchema

(***************************************************************************)
(* The cache and its lock.  Goroutines call lookup(key), save(key, s) and  *)
(* ClearCache() at will.  A goroutine is [op, key, pc, holds]: holds is    *)
(* the mode in which it holds schemaCacheMtx ("none", "r" for RLock, "w"   *)
(* for Lock).  RLock waits while a writer holds the mutex, Lock while      *)
(* anyone does.  last is the last access to the variable schemaCache: who  *)
(* made it, of which kind, in which mode it held the mutex, and who held   *)
(* the mutex at that moment.                                               *)
(***************************************************************************)
CacheInit ==
    /\ schemaCache = <<>>
    /\ heap = <<>>
    /\ root = "C"
    /\ migrations = NoMigrations
    /\ procs = [g \in Goroutines |->
                  [op |-> "none", key |-> "", pc |-> "idle", holds |-> "none"]]
    /\ last = [op |-> "none", g |-> 0, kind |-> "none", holds |-> "none",
               key |-> "", locked |-> {}]

\* a goroutine calls lookup, save or ClearCache
CacheCall(g) ==
    /\ procs[g].pc = "idle"
    /\ \E op \in {"lookup", "save", "ClearCache"}, key \in {"a", "b"} :
          procs' = [procs EXCEPT ![g] =
                      [op |-> op, key |-> IF op = "ClearCache" THEN "" ELSE key,
                       pc |-> IF op = "ClearCache" THEN "clear" ELSE "lock",
                       holds |-> "none"]]
    /\ UNCHANGED <<schemaCache, heap, root, last, migrations>>

\* schemaCacheMtx.RLock() in lookup, schemaCacheMtx.Lock() in save
CacheLock(g) ==
    /\ procs[g].pc = "lock"
    /\ IF procs[g].op = "lookup"
       THEN \A h \in Goroutines : procs[h].holds # "w"
       ELSE \A h \in Goroutines : procs[h].holds = "none"
    /\ procs' = [procs EXCEPT ![g].pc = "access",
                              ![g].holds = IF procs[g].op = "lookup" THEN "r" ELSE "w"]
    /\ UNCHANGED <<schemaCache, heap, root, last, migrations>>

\* return schemaCache[key] in lookup, schemaCache[key] = s in save
CacheAccess(g) ==
    /\ procs[g].pc = "access"
    /\ schemaCache' = IF procs[g].op = "save"
                      THEN (procs[g].key :> <<procs[g].key, g>>) @@ schemaCache
                      ELSE schemaCache
    /\ last' = [op |-> "access", g |-> g,
                kind |-> IF procs[g].op = "save" THEN "write" ELSE "read",
                holds |-> procs[g].holds, key |-> procs[g].key,
                locked |-> {h \in Goroutines : procs[h].holds # "none"}]
    /\ procs' = [procs EXCEPT ![g].pc = "unlock"]
    /\ UNCHANGED <<heap, root, migrations>>

\* the deferred RUnlock() or Unlock()
CacheUnlock(g) ==
    /\ procs[g].pc = "unlock"
    /\ procs' = [procs EXCEPT ![g].pc = "idle", ![g].holds = "none"]
    /\ UNCHANGED <<schemaCache, heap, root, last, migrations>>

\* ClearCache: schemaCache = make(map[string]*Schema)
CacheClear(g) ==
    /\ procs[g].pc = "clear"
    /\ schemaCache' = <<>>
    /\ last' = [op |-> "access", g |-> g, kind |-> "replace",
                holds |-> procs[g].holds, key |-> "",
                locked |-> {h \in Goroutines : procs[h].holds # "none"}]
    /\ procs' = [procs EXCEPT ![g].pc = "idle"]
    /\ UNCHANGED <<heap, root, migrations>>

CacheNext ==
    \E g \in Goroutines :
        \/ CacheCall(g)
        \/ CacheLock(g)
        \/ CacheAccess(g)
        \/ CacheUnlock(g)
        \/ CacheClear(g)

CacheSpec == CacheInit /\ [][CacheNext]_vars

(***************************************************************************)
(* C25.  Every access to the cache is made holding the cache's lock: a     *)
(* lookup reads it holding the lock in shared or exclusive mode, and a     *)
(* save or ClearCache writes or replaces it holding the lock exclusively,  *)
(* no other goroutine holding it.                                          *)
(***************************************************************************)
C25_CacheUnderLock ==
    last.op = "access" =>
        IF last.kind = "read" THEN last.holds \in {"r", "w"}
        ELSE last.holds = "w" /\ last.locked = {last.g}

\* the same for lookup and save alone
C25_LookupSaveUnderLock ==
    (last.op = "access" /\ last.kind \in {"read", "write"}) =>
        IF last.kind = "read" THEN last.holds \in {"r", "w"}
        ELSE last.holds = "w" /\ last.locked = {last.g}

\* ClearCache replaced the map while another goroutine held the lock
C25_Witness ==
    /\ last.op = "access"
    /\ last.kind = "replace"
    /\ last.holds = "none"
    /\ last.locked # {}

\* a save wrote the map holding the lock alone
C25_WitnessSave ==
    /\ last.op = "access"
    /\ last.kind = "write"
    /\ last.holds = "w"
    /\ last.locked = {last.g}

(***************************************************************************)
(* Introspection of declarations whose fields are only described, never    *)
(* read or written: a tag whose first segment is empty, and an embedded    *)
(* struct that is not exported.  The calls start from one of these types;  *)
(* after ClearCache they go on with the other families.                    *)
(***************************************************************************)
TagRoots == {"R", "Q", "D", "Y"}

TagInit ==
    /\ schemaCache = <<>>
    /\ heap = <<>>
    /\ root \in TagRoots
    /\ last = NoCall
    /\ procs = <<>>
    /\ migrations = NoMigrations

\* schema.MustGet(&v).Fields.FindFKS()
DoFindFKS ==
    LET g == Get("ptr", root, Cur)
    IN /\ g.err = Nil
       /\ TookValues([NoCall EXCEPT !.op = "FindFKS", !.typ = root],
                     [st |-> g.st, values |-> FindFKS(g.st.heap[g.sch].Fields),
                      err |-> Nil])

TagNext ==
    \/ DoSchemaGet
    \/ DoClearCache
    \/ DoFindFKS

TagSpec == TagInit /\ [][TagNext]_vars

(***************************************************************************)
(* C26: every field descriptor produced by introspection, whatever the     *)
(* struct and its db tags (a tag with an empty first segment, an embedded  *)
(* field that is not exported), has exactly one of a nested descriptor or  *)
(* a non-empty column name: never both and never neither.                  *)
(***************************************************************************)
C26_BranchOrLeaf ==
    \A d \in DOMAIN heap :
       \A i \in 1..Len(heap[d].Fields) :
          HasSchema(heap[d].Fields[i]) # (heap[d].Fields[i].Column # <<>>)

\* the same, for the fields whose tag, when they have one, names a column;
\* and no field has both
C26_BranchOrNamedLeaf ==
    \A d \in DOMAIN heap :
       \A i \in 1..Len(heap[d].Fields) :
          LET f == heap[d].Fields[i]
              decl == DeclOf(d, f)
          IN /\ ~(HasSchema(f) /\ f.Column # <<>>)
             /\ (decl.tag = <<>> \/ FirstSegment(decl.tag) # <<>>)
                   => (HasSchema(f) # (f.Column # <<>>))

\* a descriptor of R was built: its field Sum has neither
C26_Witness ==
    \E d \in DOMAIN heap :
       /\ heap[d].Type = "R"
       /\ \E i \in 1..Len(heap[d].Fields) :
             /\ heap[d].Fields[i].Name = <<"S","u","m">>
             /\ ~HasSchema(heap[d].Fields[i])
             /\ heap[d].Fields[i].Column = <<>>

\* a descriptor of Q was built: its embedded field a is a leaf
C26_WitnessUnexported ==
    \E d \in DOMAIN heap :
       /\ heap[d].Type = "Q"
       /\ \E i \in 1..Len(heap[d].Fields) :
             /\ heap[d].Fields[i].Name = <<"a">>
             /\ ~HasSchema(heap[d].Fields[i])
             /\ heap[d].Fields[i].Column = <<"a">>

(***************************************************************************)
(* C27: no public operation panics, whatever its argument: a value that    *)
(* cannot be introspected or addressed, a primary key that is not an       *)
(* integer, an executor that returns a nil row give an error return.       *)
(***************************************************************************)
C27_NoPanic == last.err # Panic

\* the part that holds: a scalar, or a slice of scalars, is refused by
\* introspection with an error
C27_ScalarsRefused ==
    (last.op = "SchemaGet" /\ last.form \in ScalarForms) =>
        /\ last.err = Wrap(ErrInvalidType, "int")
        /\ last.sch = NoSchema

\* UpdateByID of a record whose primary key is a string
C27_Witness ==
    /\ last.op = "UpdateByID"
    /\ last.typ = "S"
    /\ last.err = Panic

\* Add, the executor returning a nil row
C27_WitnessNilRow ==
    /\ last.op = "Add"
    /\ last.db = "nilrow"
    /\ last.err = Panic

\* Get of a slice of a type that embeds a struct
C27_WitnessEmbedding ==
    /\ last.op = "SchemaGet"
    /\ last.form = "slice"
    /\ last.typ = "C"
    /\ last.err = Panic

\* a scalar was passed to Get
C27_WitnessScalar ==
    /\ last.op = "SchemaGet"
    /\ last.form \in ScalarForms
    /\ last.err # Nil

C28_WitnessExec ==
    /\ last.op = "Add"
    /\ last.db = "err"
    /\ last.err = DbErr
    /\ Len(last.calls) = 1
    /\ last.after = last.before

(***************************************************************************)
(* C29: FindFKS returns every leaf of the whole descriptor tree that       *)
(* carries a foreign key, the fields declared in embedded structs          *)
(* included, in depth-first order of declaration, and no field without     *)
(* one.                                                                    *)
(***************************************************************************)
LastFKs == SelectSeq(LastLeaves, LAMBDA x : x.f.FK # NoFK)

C29_FindFKSWholeTree ==
    last.op = "FindFKS" => last.values = FieldsOf(LastFKs)

\* what it does return: the fields of the top level that carry one, in
\* order, and none without
C29_FindFKSTopLevel ==
    last.op = "FindFKS" =>
        /\ \A i \in 1..Len(last.values) : last.values[i].FK # NoFK
        /\ last.values =
              FieldsOf(SelectSeq(LastFKs, LAMBDA x : Len(x.index) = 1))

\* FindFKS on D, whose embedded S declares the foreign key ref
C29_Witness ==
    /\ last.op = "FindFKS"
    /\ last.typ = "D"
    /\ Len(LastFKs) = 2
    /\ LastFKs[1].index = <<0, 2>>
    /\ Len(last.values) = 1

\* FindFKS on S, which declares it at the top level
C29_WitnessTop ==
    /\ last.op = "FindFKS"
    /\ last.typ = "S"
    /\ Len(last.values) = 1
    /\ last.values[1].Column = <<"r","e","f">>

(***************************************************************************)
(* C30: a successful Get(v), after any earlier Get calls on other types,   *)
(* returns a descriptor whose Type is the struct type v reduces to and     *)
(* whose Fields describe that type's declared fields, also when another    *)
(* type that maps to the same table name was introspected before.          *)
(***************************************************************************)
\* the fields of t that introspection describes, in declaration order
DeclaredFields(t) == SelectSeq(Types[t].fields, LAMBDA f : f.tag # <<"-">>)

\* the descriptor id describes the declared fields of t
RECURSIVE Describes(_, _, _)
Describes(id, t, d) ==
    /\ id \in DOMAIN heap
    /\ heap[id].Type = t
    /\ Len(heap[id].Fields) = Len(DeclaredFields(t))
    /\ \A i \in 1..Len(heap[id].Fields) :
          LET f == heap[id].Fields[i]
              decl == DeclaredFields(t)[i]
          IN /\ f.Name = decl.name
             /\ HasSchema(f) = (decl.anon /\ decl.exported)
             /\ (HasSchema(f) /\ d > 0) => Describes(f.Schema, decl.etyp, d - 1)

\* the table names a Get of a value of type t can look up
Tables(t) ==
    {snakecase(Types[t].name)} \cup
        (IF Types[t].recv = "none" THEN {} ELSE {Types[t].tname})

C30_TypeOfValue ==
    (last.op = "SchemaGet" /\ last.err = Nil) =>
        Describes(last.sch, last.typ, ShapeDepth)

\* the same when no two types the calls work on map to one table name
C30_TypeOfValueOwnTable ==
    (/\ last.op = "SchemaGet"
     /\ last.err = Nil
     /\ \A u, v \in Members(root) : u # v => Tables(u) \cap Tables(v) = {}) =>
        Describes(last.sch, last.typ, ShapeDepth)

\* Get of an X after A, whose table name X.TableName() returns: the
\* descriptor returned is that of A
C30_Witness ==
    /\ last.op = "SchemaGet"
    /\ last.typ = "X"
    /\ last.form \in {"struct", "ptr"}
    /\ last.err = Nil
    /\ last.hit
    /\ last.sch \in DOMAIN heap
    /\ heap[last.sch].Type = "A"

\* Get of a type that has its table name to itself, from the cache
C30_WitnessOwnTable ==
    /\ last.op = "SchemaGet"
    /\ last.typ = "S"
    /\ root = "D"
    /\ last.err = Nil
    /\ last.hit
    /\ Describes(last.sch, "S", ShapeDepth)

====
